---- MODULE Spec2Model ----
(***************************************************************************)
(* Purchase-pattern mining and suggestion ranking of the Smart Grocery      *)
(* Shopping Assistant: SmartRuleEngine (learned models, kept on the engine  *)
(* object and in model files) and RuleEngine (static tables), with the      *)
(* ShoppingList / PurchaseHistory / GroceryItem objects they read.          *)
(*                                                                         *)
(* Strings are TLA+ strings; Chars gives the characters of every string of  *)
(* the model so that lower(), strip(), title() and the substring test are   *)
(* computed character by character.  Fractions are exact rationals <<n, d>> *)
(* with d > 0 in lowest terms.  Dates are whole day numbers; a calendar     *)
(* month is 30 days.  A Python dict is a sequence of <<key, value>> pairs   *)
(* in insertion order.  A value that may be None is a sequence: None is     *)
(* <<>> and any other value x is <<x>>.                                     *)
(***************************************************************************)
EXTENDS Integers, Sequences, FiniteSets, TLC


(* ------------------------------------------------------------------ *)
(* Strings                                                            *)
(* ------------------------------------------------------------------ *)
Chars ==
    (" item" :> <<" ", "i", "t", "e", "m">>)
 @@ ("Bread" :> <<"B", "r", "e", "a", "d">>)
 @@ ("Eggs" :> <<"E", "g", "g", "s">>)
 @@ ("Milk" :> <<"M", "i", "l", "k">>)
 @@ ("Popular " :> <<"P", "o", "p", "u", "l", "a", "r", " ">>)
 @@ ("Popular beverages item" :> <<"P", "o", "p", "u", "l", "a", "r", " ", "b", "e", "v", "e", "r", "a", "g", "e", "s", " ", "i", "t", "e", "m">>)
 @@ ("Popular dairy item" :> <<"P", "o", "p", "u", "l", "a", "r", " ", "d", "a", "i", "r", "y", " ", "i", "t", "e", "m">>)
 @@ ("Popular grains item" :> <<"P", "o", "p", "u", "l", "a", "r", " ", "g", "r", "a", "i", "n", "s", " ", "i", "t", "e", "m">>)
 @@ ("Popular protein item" :> <<"P", "o", "p", "u", "l", "a", "r", " ", "p", "r", "o", "t", "e", "i", "n", " ", "i", "t", "e", "m">>)
 @@ ("Rice" :> <<"R", "i", "c", "e">>)
 @@ ("Tea" :> <<"T", "e", "a">>)
 @@ ("apple" :> <<"a", "p", "p", "l", "e">>)
 @@ ("apples" :> <<"a", "p", "p", "l", "e", "s">>)
 @@ ("asparagus" :> <<"a", "s", "p", "a", "r", "a", "g", "u", "s">>)
 @@ ("autumn vegetables" :> <<"a", "u", "t", "u", "m", "n", " ", "v", "e", "g", "e", "t", "a", "b", "l", "e", "s">>)
 @@ ("banana" :> <<"b", "a", "n", "a", "n", "a">>)
 @@ ("bananas" :> <<"b", "a", "n", "a", "n", "a", "s">>)
 @@ ("bean" :> <<"b", "e", "a", "n">>)
 @@ ("beans" :> <<"b", "e", "a", "n", "s">>)
 @@ ("beef" :> <<"b", "e", "e", "f">>)
 @@ ("berries" :> <<"b", "e", "r", "r", "i", "e", "s">>)
 @@ ("berry" :> <<"b", "e", "r", "r", "y">>)
 @@ ("beverages" :> <<"b", "e", "v", "e", "r", "a", "g", "e", "s">>)
 @@ ("bread" :> <<"b", "r", "e", "a", "d">>)
 @@ ("broccoli" :> <<"b", "r", "o", "c", "c", "o", "l", "i">>)
 @@ ("butter" :> <<"b", "u", "t", "t", "e", "r">>)
 @@ ("carrot" :> <<"c", "a", "r", "r", "o", "t">>)
 @@ ("carrots" :> <<"c", "a", "r", "r", "o", "t", "s">>)
 @@ ("cereal" :> <<"c", "e", "r", "e", "a", "l">>)
 @@ ("cheese" :> <<"c", "h", "e", "e", "s", "e">>)
 @@ ("chicken" :> <<"c", "h", "i", "c", "k", "e", "n">>)
 @@ ("chip" :> <<"c", "h", "i", "p">>)
 @@ ("citrus fruits" :> <<"c", "i", "t", "r", "u", "s", " ", "f", "r", "u", "i", "t", "s">>)
 @@ ("coffee" :> <<"c", "o", "f", "f", "e", "e">>)
 @@ ("condiments" :> <<"c", "o", "n", "d", "i", "m", "e", "n", "t", "s">>)
 @@ ("cookie" :> <<"c", "o", "o", "k", "i", "e">>)
 @@ ("corn" :> <<"c", "o", "r", "n">>)
 @@ ("cracker" :> <<"c", "r", "a", "c", "k", "e", "r">>)
 @@ ("cranberries" :> <<"c", "r", "a", "n", "b", "e", "r", "r", "i", "e", "s">>)
 @@ ("cream" :> <<"c", "r", "e", "a", "m">>)
 @@ ("cucumber" :> <<"c", "u", "c", "u", "m", "b", "e", "r">>)
 @@ ("dairy" :> <<"d", "a", "i", "r", "y">>)
 @@ ("dressing" :> <<"d", "r", "e", "s", "s", "i", "n", "g">>)
 @@ ("egg" :> <<"e", "g", "g">>)
 @@ ("eggs" :> <<"e", "g", "g", "s">>)
 @@ ("fish" :> <<"f", "i", "s", "h">>)
 @@ ("fresh greens" :> <<"f", "r", "e", "s", "h", " ", "g", "r", "e", "e", "n", "s">>)
 @@ ("fresh herbs" :> <<"f", "r", "e", "s", "h", " ", "h", "e", "r", "b", "s">>)
 @@ ("fruits" :> <<"f", "r", "u", "i", "t", "s">>)
 @@ ("garlic" :> <<"g", "a", "r", "l", "i", "c">>)
 @@ ("grains" :> <<"g", "r", "a", "i", "n", "s">>)
 @@ ("grape" :> <<"g", "r", "a", "p", "e">>)
 @@ ("holiday spices" :> <<"h", "o", "l", "i", "d", "a", "y", " ", "s", "p", "i", "c", "e", "s">>)
 @@ ("honey" :> <<"h", "o", "n", "e", "y">>)
 @@ ("item" :> <<"i", "t", "e", "m">>)
 @@ ("jam" :> <<"j", "a", "m">>)
 @@ ("juice" :> <<"j", "u", "i", "c", "e">>)
 @@ ("lemon" :> <<"l", "e", "m", "o", "n">>)
 @@ ("lettuce" :> <<"l", "e", "t", "t", "u", "c", "e">>)
 @@ ("milk" :> <<"m", "i", "l", "k">>)
 @@ ("nut" :> <<"n", "u", "t">>)
 @@ ("oat" :> <<"o", "a", "t">>)
 @@ ("oatmeal" :> <<"o", "a", "t", "m", "e", "a", "l">>)
 @@ ("oats" :> <<"o", "a", "t", "s">>)
 @@ ("oil" :> <<"o", "i", "l">>)
 @@ ("onion" :> <<"o", "n", "i", "o", "n">>)
 @@ ("onions" :> <<"o", "n", "i", "o", "n", "s">>)
 @@ ("orange" :> <<"o", "r", "a", "n", "g", "e">>)
 @@ ("oranges" :> <<"o", "r", "a", "n", "g", "e", "s">>)
 @@ ("other" :> <<"o", "t", "h", "e", "r">>)
 @@ ("pasta" :> <<"p", "a", "s", "t", "a">>)
 @@ ("pasta sauce" :> <<"p", "a", "s", "t", "a", " ", "s", "a", "u", "c", "e">>)
 @@ ("peach" :> <<"p", "e", "a", "c", "h">>)
 @@ ("peaches" :> <<"p", "e", "a", "c", "h", "e", "s">>)
 @@ ("pepper" :> <<"p", "e", "p", "p", "e", "r">>)
 @@ ("popular" :> <<"p", "o", "p", "u", "l", "a", "r">>)
 @@ ("popular beverages item" :> <<"p", "o", "p", "u", "l", "a", "r", " ", "b", "e", "v", "e", "r", "a", "g", "e", "s", " ", "i", "t", "e", "m">>)
 @@ ("popular dairy item" :> <<"p", "o", "p", "u", "l", "a", "r", " ", "d", "a", "i", "r", "y", " ", "i", "t", "e", "m">>)
 @@ ("popular grains item" :> <<"p", "o", "p", "u", "l", "a", "r", " ", "g", "r", "a", "i", "n", "s", " ", "i", "t", "e", "m">>)
 @@ ("popular protein item" :> <<"p", "o", "p", "u", "l", "a", "r", " ", "p", "r", "o", "t", "e", "i", "n", " ", "i", "t", "e", "m">>)
 @@ ("potato" :> <<"p", "o", "t", "a", "t", "o">>)
 @@ ("potatoes" :> <<"p", "o", "t", "a", "t", "o", "e", "s">>)
 @@ ("protein" :> <<"p", "r", "o", "t", "e", "i", "n">>)
 @@ ("pumpkins" :> <<"p", "u", "m", "p", "k", "i", "n", "s">>)
 @@ ("rice" :> <<"r", "i", "c", "e">>)
 @@ ("root vegetables" :> <<"r", "o", "o", "t", " ", "v", "e", "g", "e", "t", "a", "b", "l", "e", "s">>)
 @@ ("salad" :> <<"s", "a", "l", "a", "d">>)
 @@ ("salt" :> <<"s", "a", "l", "t">>)
 @@ ("sauce" :> <<"s", "a", "u", "c", "e">>)
 @@ ("snacks" :> <<"s", "n", "a", "c", "k", "s">>)
 @@ ("soda" :> <<"s", "o", "d", "a">>)
 @@ ("soup ingredients" :> <<"s", "o", "u", "p", " ", "i", "n", "g", "r", "e", "d", "i", "e", "n", "t", "s">>)
 @@ ("soy sauce" :> <<"s", "o", "y", " ", "s", "a", "u", "c", "e">>)
 @@ ("spice" :> <<"s", "p", "i", "c", "e">>)
 @@ ("spices" :> <<"s", "p", "i", "c", "e", "s">>)
 @@ ("spinach" :> <<"s", "p", "i", "n", "a", "c", "h">>)
 @@ ("spring onions" :> <<"s", "p", "r", "i", "n", "g", " ", "o", "n", "i", "o", "n", "s">>)
 @@ ("spring vegetables" :> <<"s", "p", "r", "i", "n", "g", " ", "v", "e", "g", "e", "t", "a", "b", "l", "e", "s">>)
 @@ ("squash" :> <<"s", "q", "u", "a", "s", "h">>)
 @@ ("strawberries" :> <<"s", "t", "r", "a", "w", "b", "e", "r", "r", "i", "e", "s">>)
 @@ ("sugar" :> <<"s", "u", "g", "a", "r">>)
 @@ ("summer fruits" :> <<"s", "u", "m", "m", "e", "r", " ", "f", "r", "u", "i", "t", "s">>)
 @@ ("summer vegetables" :> <<"s", "u", "m", "m", "e", "r", " ", "v", "e", "g", "e", "t", "a", "b", "l", "e", "s">>)
 @@ ("tea" :> <<"t", "e", "a">>)
 @@ ("tofu" :> <<"t", "o", "f", "u">>)
 @@ ("tomato" :> <<"t", "o", "m", "a", "t", "o">>)
 @@ ("tomatoes" :> <<"t", "o", "m", "a", "t", "o", "e", "s">>)
 @@ ("vegetables" :> <<"v", "e", "g", "e", "t", "a", "b", "l", "e", "s">>)
 @@ ("warm beverages" :> <<"w", "a", "r", "m", " ", "b", "e", "v", "e", "r", "a", "g", "e", "s">>)
 @@ ("water" :> <<"w", "a", "t", "e", "r">>)
 @@ ("winter citrus" :> <<"w", "i", "n", "t", "e", "r", " ", "c", "i", "t", "r", "u", "s">>)
 @@ ("winter vegetables" :> <<"w", "i", "n", "t", "e", "r", " ", "v", "e", "g", "e", "t", "a", "b", "l", "e", "s">>)
 @@ ("yogurt" :> <<"y", "o", "g", "u", "r", "t">>)
 @@ ("zucchini" :> <<"z", "u", "c", "c", "h", "i", "n", "i">>)

AllStrings == DOMAIN Chars

UpperLetters ==
    <<"A","B","C","D","E","F","G","H","I","J","K","L","M",
      "N","O","P","Q","R","S","T","U","V","W","X","Y","Z">>

LowerLetters ==
    <<"a","b","c","d","e","f","g","h","i","j","k","l","m",
      "n","o","p","q","r","s","t","u","v","w","x","y","z">>

IsUpper(c) == \E i \in 1..26 : UpperLetters[i] = c

IsLower(c) == \E i \in 1..26 : LowerLetters[i] = c

IsLetter(c) == IsUpper(c) \/ IsLower(c)

LowerChar(c) ==
    IF IsUpper(c) THEN LowerLetters[CHOOSE i \in 1..26 : UpperLetters[i] = c] ELSE c

UpperChar(c) ==
    IF IsLower(c) THEN UpperLetters[CHOOSE i \in 1..26 : LowerLetters[i] = c] ELSE c

\* str.lower() on a character sequence
LowerChars(cs) == [i \in 1..Len(cs) |-> LowerChar(cs[i])]

\* str.strip(): drop leading and trailing blanks
RECURSIVE StripLeft(_)
StripLeft(cs) ==
    IF cs # <<>> /\ Head(cs) = " " THEN StripLeft(Tail(cs)) ELSE cs

RECURSIVE StripRight(_)
StripRight(cs) ==
    IF cs # <<>> /\ cs[Len(cs)] = " " THEN StripRight(SubSeq(cs, 1, Len(cs) - 1)) ELSE cs

StripChars(cs) == StripRight(StripLeft(cs))

\* str.title(): first letter of every word upper case, the other letters lower case
TitleChars(cs) ==
    [i \in 1..Len(cs) |->
        IF i = 1 \/ ~IsLetter(cs[i - 1]) THEN UpperChar(cs[i]) ELSE LowerChar(cs[i])]

\* needle in hay (Python substring test)
ContainsChars(hay, needle) ==
    \E i \in 0..(Len(hay) - Len(needle)) :
        \A j \in 1..Len(needle) : hay[i + j] = needle[j]

\* the string with the given characters
Str(cs) == CHOOSE s \in AllStrings : Chars[s] = cs

\* the strings whose image under a conversion is a string of the model
HasStr(cs) == \E s \in AllStrings : Chars[s] = cs

LowerTable ==
    [s \in {x \in AllStrings : HasStr(LowerChars(Chars[x]))} |-> Str(LowerChars(Chars[s]))]

LowerStripTable ==
    [s \in {x \in AllStrings : HasStr(StripChars(LowerChars(Chars[x])))} |->
        Str(StripChars(LowerChars(Chars[s])))]

TitleTable ==
    [s \in {x \in AllStrings : HasStr(TitleChars(Chars[x]))} |-> Str(TitleChars(Chars[s]))]

ContainsTable ==
    [hay \in AllStrings |-> {needle \in AllStrings : ContainsChars(Chars[hay], Chars[needle])}]

\* name.lower()
Lower(s) == LowerTable[s]

\* name.lower().strip()
LowerStrip(s) == LowerStripTable[s]

\* name.title()
Title(s) == TitleTable[s]

\* needle in hay
Contains(hay, needle) == needle \in ContainsTable[hay]

\* f"Popular {category} item"
PopularItemName(category) == Str(Chars["Popular "] \o Chars[category] \o Chars[" item"])

(* ------------------------------------------------------------------ *)
(* Exact fractions                                                    *)
(* ------------------------------------------------------------------ *)
RECURSIVE GCD(_, _)
GCD(a, b) == IF b = 0 THEN a ELSE GCD(b, a % b)

Abs(x) == IF x < 0 THEN -x ELSE x

\* n / d in lowest terms with a positive denominator (d # 0)
Frac(n, d) ==
    LET g == GCD(Abs(n), Abs(d))
        s == IF d < 0 THEN -1 ELSE 1
    IN  <<(s * n) \div g, (s * d) \div g>>

RInt(n) == <<n, 1>>

\* the operations divide by common factors before they multiply, so that
\* the intermediate products stay small
RAdd(a, b) ==
    LET g == GCD(a[2], b[2])
    IN  Frac(a[1] * (b[2] \div g) + b[1] * (a[2] \div g), (a[2] \div g) * b[2])

RSub(a, b) ==
    LET g == GCD(a[2], b[2])
    IN  Frac(a[1] * (b[2] \div g) - b[1] * (a[2] \div g), (a[2] \div g) * b[2])

RMul(a, b) ==
    LET g1 == GCD(Abs(a[1]), Abs(b[2]))
        g2 == GCD(Abs(b[1]), Abs(a[2]))
    IN  Frac((a[1] \div g1) * (b[1] \div g2), (a[2] \div g2) * (b[2] \div g1))

\* a / b for b # 0
RDiv(a, b) == RMul(a, <<b[2], b[1]>>)

\* a < b, compared by whole parts and then by the remainders, without products
RECURSIVE RLess(_, _)
RLess(a, b) ==
    LET qa == a[1] \div a[2]
        qb == b[1] \div b[2]
        ra == a[1] % a[2]
        rb == b[1] % b[2]
    IN  IF qa # qb THEN qa < qb
        ELSE IF rb = 0 THEN FALSE
        ELSE IF ra = 0 THEN TRUE
        ELSE RLess(<<b[2], rb>>, <<a[2], ra>>)

RLeq(a, b) == ~RLess(b, a)

\* Python min(a, b) and max(a, b): the first argument unless the second is strictly better
RMin(a, b) == IF RLess(b, a) THEN b ELSE a

RMax(a, b) == IF RLess(a, b) THEN b ELSE a

\* floor of a fraction (timedelta.days)
RFloor(a) == a[1] \div a[2]

\* Python None, and a value that is not None
None == <<>>

Some(x) == <<x>>

(* ------------------------------------------------------------------ *)
(* Python dicts as insertion-ordered sequences of <<key, value>>      *)
(* ------------------------------------------------------------------ *)
DHas(d, k) == \E i \in 1..Len(d) : d[i][1] = k

DGet(d, k) == d[CHOOSE i \in 1..Len(d) : d[i][1] = k][2]

\* d[k] = v : an existing key keeps its position, a new key goes last
DPut(d, k, v) ==
    IF DHas(d, k)
    THEN [i \in 1..Len(d) |-> IF d[i][1] = k THEN <<k, v>> ELSE d[i]]
    ELSE Append(d, <<k, v>>)

DKeys(d) == [i \in 1..Len(d) |-> d[i][1]]

DKeySet(d) == {d[i][1] : i \in 1..Len(d)}

\* defaultdict(int)[k] += n
DInc(d, k, n) == DPut(d, k, (IF DHas(d, k) THEN DGet(d, k) ELSE 0) + n)

\* list.append on defaultdict(list)[k]
DAppend(d, k, x) == DPut(d, k, Append(IF DHas(d, k) THEN DGet(d, k) ELSE <<>>, x))

SeqToSet(s) == {s[i] : i \in 1..Len(s)}


\* left fold of a Python for-loop: acc = Op(acc, s[1]); acc = Op(acc, s[2]); ...
RECURSIVE FoldLeft(_, _, _)
FoldLeft(Op(_, _), acc, s) ==
    IF s = <<>> THEN acc ELSE FoldLeft(Op, Op(acc, Head(s)), Tail(s))

\* list.sort() on day numbers (insertion sort, ascending)
RECURSIVE InsertAsc(_, _)
InsertAsc(s, x) ==
    IF s = <<>> THEN <<x>>
    ELSE IF x < Head(s) THEN <<x>> \o s
    ELSE <<Head(s)>> \o InsertAsc(Tail(s), x)

SortAsc(s) == FoldLeft(InsertAsc, <<>>, s)

RECURSIVE SumSeq(_)
SumSeq(s) == IF s = <<>> THEN 0 ELSE Head(s) + SumSeq(Tail(s))

(* ------------------------------------------------------------------ *)
(* GroceryItem, ShoppingList, PurchaseHistory                          *)
(* ------------------------------------------------------------------ *)
\* the calendar month (1..12) of a day number
Month(d) == ((d \div 30) % 12) + 1

\* GroceryItem(name, category, purchase_date=day): __post_init__ normalises both strings
GroceryItem(name, category, day) ==
    [name |-> LowerStrip(name), category |-> LowerStrip(category),
     quantity |-> 1, purchase_date |-> day, expiration_days |-> 7]

\* PurchaseHistory.add_multiple_purchases(items) on the purchases so far
AddMultiplePurchases(purchases, items) == purchases \o items

(* ------------------------------------------------------------------ *)
(* Bounds and the inputs of the model                                 *)
(* ------------------------------------------------------------------ *)
\* calls made on one SmartRuleEngine object between two starts of the process
MaxCalls == 2

\* the instants of the clock, in day numbers
ClockDays == <<25, 40>>

\* the shopping trips a history is drawn from, oldest first:
\* the day and the <<name, category>> of the items bought
TripPool ==
    << <<0,  << <<"milk", "dairy">>, <<"bread", "grains">> >> >>,
       <<5,  << <<"eggs", "protein">> >> >>,
       <<20, << <<"milk", "dairy">>, <<"bread", "grains">> >> >> >>

\* the items a shopping list is drawn from: <<name, category>>
ListPool ==
    << <<"bread", "grains">>, <<"tea", "beverages">> >>

\* the elements of s at the positions in idx, in order
RECURSIVE Pick(_, _, _)
Pick(s, idx, i) ==
    IF i > Len(s) THEN <<>>
    ELSE (IF i \in idx THEN <<s[i]>> ELSE <<>>) \o Pick(s, idx, i + 1)

\* the GroceryItem objects of one trip
TripItems(trip) ==
    [i \in 1..Len(trip[2]) |-> GroceryItem(trip[2][i][1], trip[2][i][2], trip[1])]

\* PurchaseHistory._purchases: the purchases of the chosen trips
Histories ==
    { FoldLeft(LAMBDA h, trip : AddMultiplePurchases(h, TripItems(trip)),
               <<>>, Pick(TripPool, idx, 1)) :
      idx \in SUBSET (1..Len(TripPool)) }

\* ShoppingList._items: the chosen items of the pool
ShoppingLists ==
    { [i \in 1..Len(Pick(ListPool, idx, 1)) |->
          LET p == Pick(ListPool, idx, 1)[i] IN GroceryItem(p[1], p[2], 0)] :
      idx \in SUBSET (1..Len(ListPool)) }

\* ShoppingList.find_item(name): the first item of that normalised name, or None
FindItem(L, name) ==
    LET n == LowerStrip(name)
        hits == {i \in 1..Len(L) : L[i].name = n}
    IN  IF hits = {} THEN None
        ELSE Some(L[CHOOSE i \in hits : \A j \in hits : i <= j])

\* truthiness of find_item's result
InList(L, name) == FindItem(L, name) # None

\* PurchaseHistory.get_recent_purchases(days)
GetRecentPurchases(H, days, now) ==
    SelectSeq(H, LAMBDA item : item.purchase_date >= now - days)


(* ------------------------------------------------------------------ *)
(* SmartRuleEngine: learning                                          *)
(* ------------------------------------------------------------------ *)
\* min_support = 2
MinSupport == 2

\* if confidence > 0.3
MinConfidence == <<3, 10>>

\* if preference_score > 0.1
MinSeasonalScore == <<1, 10>>

\* SmartRuleEngine.__init__: the models of a new engine before any file is read
EmptyEngine ==
    [item_associations |-> <<>>, seasonal_patterns |-> <<>>,
     category_preferences |-> <<>>, purchase_patterns |-> <<>>,
     item_clusters |-> None]

\* no model file on disk
NoFiles == None

\* baskets[date_key].append(item.name.lower())
Baskets(H) ==
    FoldLeft(LAMBDA b, item : DAppend(b, item.purchase_date, Lower(item.name)), <<>>, H)

\* item_counts[item] += 1 for every entry of every basket
ItemCounts(baskets) ==
    FoldLeft(LAMBDA c, kv : FoldLeft(LAMBDA c2, name : DInc(c2, name, 1), c, kv[2]),
             <<>>, baskets)

\* the pairs (item1, item2) of "for i, item1 in enumerate(b): for item2 in b[i+1:]"
RECURSIVE BasketPairs(_, _)
BasketPairs(b, i) ==
    IF i > Len(b) THEN <<>>
    ELSE [j \in 1..(Len(b) - i) |-> <<b[i], b[i + j]>>] \o BasketPairs(b, i + 1)

\* item_cooccurrence[a][b] += 1
CoInc(c, a, b) == DPut(c, a, DInc(IF DHas(c, a) THEN DGet(c, a) ELSE <<>>, b, 1))

\* item_cooccurrence after all baskets
Cooccurrence(baskets) ==
    FoldLeft(LAMBDA c, kv :
                FoldLeft(LAMBDA c2, p : CoInc(CoInc(c2, p[1], p[2]), p[2], p[1]),
                         c, BasketPairs(kv[2], 1)),
             <<>>, baskets)

\* the rules written for one antecedent
RulesOf(item1, coocs, counts, nbaskets) ==
    FoldLeft(LAMBDA r, kv :
                LET count == kv[2]
                    confidence == Frac(count, DGet(counts, item1))
                IN  IF count >= MinSupport /\ RLess(MinConfidence, confidence)
                    THEN DPut(r, kv[1],
                              [confidence |-> confidence,
                               support |-> count,
                               lift |-> RDiv(confidence, Frac(DGet(counts, kv[1]), nbaskets))])
                    ELSE r,
             <<>>, coocs)

\* SmartRuleEngine._learn_item_associations: self.item_associations afterwards
LearnItemAssociations(assoc, H) ==
    LET baskets == Baskets(H)
        counts == ItemCounts(baskets)
        cooc == Cooccurrence(baskets)
    IN  FoldLeft(LAMBDA a, kv :
                    IF DGet(counts, kv[1]) >= MinSupport
                    THEN DPut(a, kv[1], RulesOf(kv[1], kv[2], counts, Len(baskets)))
                    ELSE a,
                 assoc, cooc)

\* monthly_purchases[month][item.name.lower()] += 1
MonthlyPurchases(H) ==
    FoldLeft(LAMBDA m, item :
                LET month == Month(item.purchase_date)
                IN  DPut(m, month,
                         DInc(IF DHas(m, month) THEN DGet(m, month) ELSE <<>>,
                              Lower(item.name), 1)),
             <<>>, H)

\* _learn_seasonal_patterns with "+=" for "=": a score adds to the one already held
AccumulateSeasonalPatterns(seasonal, H) ==
    FoldLeft(LAMBDA s, kv :
                LET old == IF DHas(s, kv[1]) THEN DGet(s, kv[1]) ELSE <<>>
                    total_items == SumSeq([i \in 1..Len(kv[2]) |-> kv[2][i][2]])
                IN  DPut(s, kv[1],
                         FoldLeft(LAMBDA p, ic :
                                     DPut(p, ic[1],
                                          RAdd(IF DHas(p, ic[1]) THEN DGet(p, ic[1]) ELSE RInt(0),
                                               Frac(ic[2], total_items))),
                                  old, kv[2])),
             seasonal, MonthlyPurchases(H))

\* SmartRuleEngine._learn_seasonal_patterns: self.seasonal_patterns afterwards
\* (the key str(month) is written as the month number)
LearnSeasonalPatterns(seasonal, H) ==
    FoldLeft(LAMBDA s, kv :
                LET total_items == SumSeq([i \in 1..Len(kv[2]) |-> kv[2][i][2]])
                IN  IF total_items > 0
                    THEN DPut(s, kv[1],
                              FoldLeft(LAMBDA p, ic :
                                          LET preference_score == Frac(ic[2], total_items)
                                          IN  IF RLess(MinSeasonalScore, preference_score)
                                              THEN DPut(p, ic[1], preference_score)
                                              ELSE p,
                                       <<>>, kv[2]))
                    ELSE s,
             seasonal, MonthlyPurchases(H))

\* weight = 1.0 / (1.0 + days_ago * 0.01), for a purchase made days_ago >= 0 days ago
RecencyWeight(days_ago) == Frac(100, 100 + days_ago)

\* category_weights[item.category] += weight
CategoryWeights(H, now) ==
    FoldLeft(LAMBDA w, item :
                DPut(w, item.category,
                     RAdd(IF DHas(w, item.category) THEN DGet(w, item.category) ELSE RInt(0),
                          RecencyWeight(now - item.purchase_date))),
             <<>>, H)

\* SmartRuleEngine._learn_category_preferences: self.category_preferences afterwards
LearnCategoryPreferences(prefs, H, now) ==
    LET weights == CategoryWeights(H, now)
        total_weight == FoldLeft(LAMBDA t, kv : RAdd(t, kv[2]), RInt(0), weights)
    IN  IF RLess(RInt(0), total_weight)
        THEN FoldLeft(LAMBDA p, kv : DPut(p, kv[1], RDiv(kv[2], total_weight)), prefs, weights)
        ELSE prefs

\* item_purchases[item.name.lower()].append(item.purchase_date)
ItemPurchases(H) ==
    FoldLeft(LAMBDA d, item : DAppend(d, Lower(item.name), item.purchase_date), <<>>, H)

\* np.mean of a non-empty list of whole numbers
Mean(xs) == Frac(SumSeq(xs), Len(xs))

\* the square of np.std (population variance)
Variance(xs) ==
    LET m == Mean(xs)
    IN  RDiv(FoldLeft(LAMBDA t, x : RAdd(t, RMul(RSub(RInt(x), m), RSub(RInt(x), m))),
                      RInt(0), xs),
             RInt(Len(xs)))

\* days_since_last / expected_next, expected_next being a numpy float: division by
\* 0.0 does not raise, it warns and gives inf, -inf or nan
IntervalQuotient(days_since_last, expected_next) ==
    IF expected_next[1] # 0
    THEN [kind |-> "finite", value |-> RDiv(RInt(days_since_last), expected_next)]
    ELSE IF days_since_last > 0 THEN [kind |-> "inf"]
    ELSE IF days_since_last < 0 THEN [kind |-> "-inf"]
    ELSE [kind |-> "nan"]

\* max(0, min(1, days_since_last / expected_next)); min(1, inf) and min(1, nan)
\* are 1, min(1, -inf) is -inf
NextPurchaseProbability(days_since_last, expected_next) ==
    LET quotient == IntervalQuotient(days_since_last, expected_next)
    IN  IF quotient.kind = "finite"
        THEN RMax(RInt(0), RMin(RInt(1), quotient.value))
        ELSE IF quotient.kind = "-inf" THEN RInt(0) ELSE RInt(1)

\* the entry written with "std_interval = np.std(intervals)" for every number of
\* intervals (_learn_purchase_patterns without the fallback for a single interval)
PatternOfPlainDeviation(dates0, now) ==
    LET dates == SortAsc(dates0)
        intervals == [i \in 1..(Len(dates) - 1) |-> dates[i + 1] - dates[i]]
        avg_interval == Mean(intervals)
        last_purchase == dates[Len(dates)]
    IN  [avg_interval |-> avg_interval,
         std_interval |-> [sqrt_of |-> Variance(intervals)],
         last_purchase |-> last_purchase,
         next_purchase_probability |->
             NextPurchaseProbability(now - last_purchase, avg_interval),
         purchase_count |-> Len(dates)]

\* the entry written when the dates are left in the order of the records
\* (_learn_purchase_patterns without dates.sort())
PatternOfUnsorted(dates0, now) ==
    LET dates == dates0
        intervals == [i \in 1..(Len(dates) - 1) |-> dates[i + 1] - dates[i]]
        avg_interval == Mean(intervals)
        last_purchase == dates[Len(dates)]
    IN  [avg_interval |-> avg_interval,
         std_interval |-> IF Len(intervals) > 1
                          THEN [sqrt_of |-> Variance(intervals)]
                          ELSE [value |-> RMul(avg_interval, <<1, 5>>)],
         last_purchase |-> last_purchase,
         next_purchase_probability |->
             NextPurchaseProbability(now - last_purchase, avg_interval),
         purchase_count |-> Len(dates)]

\* the entry written for one item with more than one purchase
PatternOf(dates0, now) ==
    LET dates == SortAsc(dates0)
        intervals == [i \in 1..(Len(dates) - 1) |-> dates[i + 1] - dates[i]]
        avg_interval == Mean(intervals)
        last_purchase == dates[Len(dates)]
    IN  [avg_interval |-> avg_interval,
         std_interval |-> IF Len(intervals) > 1
                          THEN [sqrt_of |-> Variance(intervals)]
                          ELSE [value |-> RMul(avg_interval, <<1, 5>>)],
         last_purchase |-> last_purchase,
         next_purchase_probability |->
             NextPurchaseProbability(now - last_purchase, avg_interval),
         purchase_count |-> Len(dates)]

\* SmartRuleEngine._learn_purchase_patterns: self.purchase_patterns afterwards
LearnPurchasePatterns(patterns, H, now) ==
    FoldLeft(LAMBDA p, kv :
                IF Len(kv[2]) > 1 THEN DPut(p, kv[1], PatternOf(kv[2], now)) ELSE p,
             patterns, ItemPurchases(H))


\* set iteration order of the item names under the process's string hash seed
HashBase == <<"bread", "eggs", "milk", "rice", "tea">>

\* list(set(names)) : the names of the set in hash order
SetToList(S, seed) ==
    LET n == Len(HashBase)
        order == [i \in 1..n |-> HashBase[((i - 1 + seed) % n) + 1]]
    IN  SelectSeq(order, LAMBDA x : x \in S)

\* a name in which TfidfVectorizer finds a token (two or more word characters)
HasToken(name) ==
    \E i \in 1..(Len(Chars[name]) - 1) : IsLetter(Chars[name][i]) /\ IsLetter(Chars[name][i + 1])

\* KMeans(n_clusters=k, random_state=42).fit_predict: a fixed labelling of the rows
KMeansLabels(items, k) == [i \in 1..Len(items) |-> (i - 1) % k]

\* n_clusters = min(5, max(2, len(items) // 3))
NClusters(n) ==
    LET a == IF n \div 3 > 2 THEN n \div 3 ELSE 2 IN IF a < 5 THEN a ELSE 5

\* _cluster_similar_items with "list(...)" for "list(set(...))": one row per record
ClusterWithRepeats(clusters, H, seed) ==
    LET items == [i \in 1..Len(H) |-> Lower(H[i].name)]
    IN  IF Len(items) < 3 THEN clusters
        ELSE IF \A i \in 1..Len(items) : ~HasToken(items[i]) THEN None
        ELSE LET labels == KMeansLabels(items, NClusters(Len(items)))
             IN  Some(FoldLeft(LAMBDA c, i : DAppend(c, labels[i], items[i]),
                               <<>>, [i \in 1..Len(items) |-> i]))

\* SmartRuleEngine._cluster_similar_items: self.item_clusters afterwards
ClusterSimilarItems(clusters, H, seed) ==
    LET items == SetToList({Lower(H[i].name) : i \in 1..Len(H)}, seed)
    IN  IF Len(items) < 3 THEN clusters
        ELSE IF \A i \in 1..Len(items) : ~HasToken(items[i]) THEN None
        ELSE LET labels == KMeansLabels(items, NClusters(Len(items)))
             IN  Some(FoldLeft(LAMBDA c, i : DAppend(c, labels[i], items[i]),
                               <<>>, [i \in 1..Len(items) |-> i]))

\* SmartRuleEngine._save_models: the four model files written
SaveModels(E) ==
    Some(
    [user_preferences |-> <<>>,
     item_associations |-> E.item_associations,
     seasonal_patterns |-> E.seasonal_patterns,
     purchase_patterns |-> E.purchase_patterns])

\* SmartRuleEngine.__init__ with _load_or_initialize_models: the new engine's models
LoadOrInitializeModels(files) ==
    IF files = NoFiles THEN EmptyEngine
    ELSE [EmptyEngine EXCEPT !.item_associations = files[1].item_associations,
                             !.seasonal_patterns = files[1].seasonal_patterns]

\* SmartRuleEngine.learn_from_purchase_history: the engine's models afterwards
LearnFromPurchaseHistory(E, H, now, seed) ==
    IF H = <<>> THEN E
    ELSE [item_associations |-> LearnItemAssociations(E.item_associations, H),
          seasonal_patterns |-> LearnSeasonalPatterns(E.seasonal_patterns, H),
          category_preferences |-> LearnCategoryPreferences(E.category_preferences, H, now),
          purchase_patterns |-> LearnPurchasePatterns(E.purchase_patterns, H, now),
          item_clusters |-> ClusterSimilarItems(E.item_clusters, H, seed)]

\* the model files if _save_models ran for an empty history too
FilesAlwaysSaved(files, learned, H) == SaveModels(learned)

\* the model files after learn_from_purchase_history(H) left the models `learned`
FilesAfterLearning(files, learned, H) ==
    IF H = <<>> THEN files ELSE SaveModels(learned)

(* ------------------------------------------------------------------ *)
(* SmartRuleEngine: suggestions                                       *)
(* ------------------------------------------------------------------ *)
CategoryKeywords ==
    <<<<"dairy", <<"milk", "cheese", "yogurt", "butter", "cream">>>>,
      <<"fruits", <<"apple", "banana", "orange", "berry", "grape", "lemon", "peach">>>>,
      <<"vegetables", <<"tomato", "onion", "carrot", "potato", "lettuce", "spinach", "broccoli">>>>,
      <<"protein", <<"chicken", "beef", "fish", "egg", "bean", "tofu">>>>,
      <<"grains", <<"bread", "rice", "pasta", "oat", "cereal">>>>,
      <<"beverages", <<"juice", "soda", "tea", "coffee", "water">>>>,
      <<"condiments", <<"sauce", "dressing", "spice", "salt", "pepper", "oil">>>>,
      <<"snacks", <<"chip", "cookie", "cracker", "nut">>>>>>


\* the first category one of whose keywords occurs in the name, or "other"
KeywordCategoryTable ==
    [name \in AllStrings |->
        LET hits == {i \in 1..Len(CategoryKeywords) :
                        \E j \in 1..Len(CategoryKeywords[i][2]) :
                            ContainsChars(Chars[name], Chars[CategoryKeywords[i][2][j]])}
        IN  IF hits = {} THEN "other"
            ELSE CategoryKeywords[CHOOSE i \in hits : \A j \in hits : i <= j][1]]

\* SmartRuleEngine._guess_category
SmartGuessCategory(prefs, item_name0) ==
    LET item_name == Lower(item_name0)
        hits == {i \in 1..Len(prefs) : Contains(item_name, Lower(prefs[i][1]))}
    IN  IF hits # {} THEN prefs[CHOOSE i \in hits : \A j \in hits : i <= j][1]
        ELSE KeywordCategoryTable[item_name]

\* SmartRuleEngine._get_smart_pattern_suggestions
GetSmartPatternSuggestions(E, L, H) ==
    FoldLeft(LAMBDA s, kv :
                LET item_name == kv[1]
                    probability == kv[2].next_purchase_probability
                    recent_items == SelectSeq(H, LAMBDA item : Lower(item.name) = item_name)
                IN  IF InList(L, item_name) THEN s
                    ELSE IF RLess(<<7, 10>>, probability) /\ recent_items # <<>>
                    THEN Append(s, [name |-> recent_items[Len(recent_items)].name,
                                    category |-> recent_items[Len(recent_items)].category,
                                    confidence |-> RMin(<<19, 20>>, RMul(probability, <<9, 10>>)),
                                    rule_type |-> "smart_pattern"])
                    ELSE s,
             <<>>, E.purchase_patterns)

\* _get_smart_association_suggestions with "confidence_score = stats['lift']":
\* the score without the rule's confidence
AssociationSuggestionsByLift(E, L) ==
    FoldLeft(LAMBDA s, item :
                LET item_name == Lower(item.name)
                IN  IF ~DHas(E.item_associations, item_name) THEN s
                    ELSE FoldLeft(LAMBDA s2, kv :
                                     LET confidence_score == kv[2].lift
                                     IN  IF InList(L, kv[1]) THEN s2
                                         ELSE IF RLess(<<4, 10>>, confidence_score)
                                         THEN Append(s2,
                                                [name |-> Title(kv[1]),
                                                 category |->
                                                     SmartGuessCategory(E.category_preferences, kv[1]),
                                                 confidence |->
                                                     RMin(<<17, 20>>, RMul(confidence_score, <<8, 10>>)),
                                                 rule_type |-> "smart_association"])
                                         ELSE s2,
                                  s, DGet(E.item_associations, item_name)),
             <<>>, L)

\* _get_smart_association_suggestions with "confidence_score * 0.8" left uncapped
UncappedAssociationSuggestions(E, L) ==
    FoldLeft(LAMBDA s, item :
                LET item_name == Lower(item.name)
                IN  IF ~DHas(E.item_associations, item_name) THEN s
                    ELSE FoldLeft(LAMBDA s2, kv :
                                     LET confidence_score ==
                                             RMul(kv[2].confidence, kv[2].lift)
                                     IN  IF InList(L, kv[1]) THEN s2
                                         ELSE IF RLess(<<4, 10>>, confidence_score)
                                         THEN Append(s2,
                                                [name |-> Title(kv[1]),
                                                 category |->
                                                     SmartGuessCategory(E.category_preferences, kv[1]),
                                                 confidence |-> RMul(confidence_score, <<8, 10>>),
                                                 rule_type |-> "smart_association"])
                                         ELSE s2,
                                  s, DGet(E.item_associations, item_name)),
             <<>>, L)

\* SmartRuleEngine._get_smart_association_suggestions
GetSmartAssociationSuggestions(E, L) ==
    FoldLeft(LAMBDA s, item :
                LET item_name == Lower(item.name)
                IN  IF ~DHas(E.item_associations, item_name) THEN s
                    ELSE FoldLeft(LAMBDA s2, kv :
                                     LET confidence_score ==
                                             RMul(kv[2].confidence, kv[2].lift)
                                     IN  IF InList(L, kv[1]) THEN s2
                                         ELSE IF RLess(<<4, 10>>, confidence_score)
                                         THEN Append(s2,
                                                [name |-> Title(kv[1]),
                                                 category |->
                                                     SmartGuessCategory(E.category_preferences, kv[1]),
                                                 confidence |->
                                                     RMin(<<17, 20>>, RMul(confidence_score, <<8, 10>>)),
                                                 rule_type |-> "smart_association"])
                                         ELSE s2,
                                  s, DGet(E.item_associations, item_name)),
             <<>>, L)

\* _get_smart_seasonal_suggestions reading the profile of the month learned last
\* instead of the profile of datetime.now().month
SeasonalSuggestionsOfLearnedMonth(E, L, now) ==
    IF E.seasonal_patterns = <<>> THEN <<>>
    ELSE FoldLeft(LAMBDA s, kv :
                     IF InList(L, kv[1]) THEN s
                     ELSE IF RLess(<<2, 10>>, kv[2])
                     THEN Append(s, [name |-> Title(kv[1]),
                                     category |->
                                         SmartGuessCategory(E.category_preferences, kv[1]),
                                     confidence |-> RMin(<<7, 10>>, RMul(kv[2], <<8, 10>>)),
                                     rule_type |-> "smart_seasonal"])
                     ELSE s,
                  <<>>, E.seasonal_patterns[Len(E.seasonal_patterns)][2])

\* SmartRuleEngine._get_smart_seasonal_suggestions
GetSmartSeasonalSuggestions(E, L, now) ==
    LET current_month == Month(now)
    IN  IF ~DHas(E.seasonal_patterns, current_month) THEN <<>>
        ELSE FoldLeft(LAMBDA s, kv :
                         IF InList(L, kv[1]) THEN s
                         ELSE IF RLess(<<2, 10>>, kv[2])
                         THEN Append(s, [name |-> Title(kv[1]),
                                         category |->
                                             SmartGuessCategory(E.category_preferences, kv[1]),
                                         confidence |-> RMin(<<7, 10>>, RMul(kv[2], <<8, 10>>)),
                                         rule_type |-> "smart_seasonal"])
                         ELSE s,
                      <<>>, DGet(E.seasonal_patterns, current_month))

\* SmartRuleEngine._get_smart_category_suggestions
GetSmartCategorySuggestions(E, L) ==
    LET current_categories == {L[i].category : i \in 1..Len(L)}
    IN  FoldLeft(LAMBDA s, kv :
                    IF kv[1] \notin current_categories /\ RLess(<<1, 10>>, kv[2])
                    THEN Append(s, [name |-> PopularItemName(kv[1]),
                                    category |-> kv[1],
                                    confidence |-> RMin(<<6, 10>>, RMul(kv[2], <<7, 10>>)),
                                    rule_type |-> "smart_category"])
                    ELSE s,
                 <<>>, E.category_preferences)

\* sorted(set of cluster ids): iteration order of a set of small ints
RECURSIVE IdsAscending(_)
IdsAscending(S) ==
    IF S = {} THEN <<>>
    ELSE LET m == CHOOSE x \in S : \A y \in S : x <= y
         IN  <<m>> \o IdsAscending(S \ {m})

\* _get_cluster_suggestions with "cluster_items[:1]" for "cluster_items[:2]"
ClusterSuggestionsTopOne(E, L) ==
    IF E.item_clusters = None \/ E.item_clusters = Some(<<>>) THEN <<>>
    ELSE LET clusters == E.item_clusters[1]
             list_item_clusters ==
                 {clusters[c][1] : c \in
                     {c \in 1..Len(clusters) :
                         \E i \in 1..Len(L) :
                             Lower(L[i].name) \in SeqToSet(clusters[c][2])}}
         IN  FoldLeft(LAMBDA s, cluster_id :
                         FoldLeft(LAMBDA s2, item_name :
                                     IF InList(L, item_name) THEN s2
                                     ELSE Append(s2,
                                            [name |-> Title(item_name),
                                             category |->
                                                 SmartGuessCategory(E.category_preferences, item_name),
                                             confidence |-> <<1, 2>>,
                                             rule_type |-> "cluster_similarity"]),
                                  s,
                                  SubSeq(DGet(clusters, cluster_id), 1, 1)),
                      <<>>, IdsAscending(list_item_clusters))

\* SmartRuleEngine._get_cluster_suggestions
GetClusterSuggestions(E, L) ==
    IF E.item_clusters = None \/ E.item_clusters = Some(<<>>) THEN <<>>
    ELSE LET clusters == E.item_clusters[1]
             list_item_clusters ==
                 {clusters[c][1] : c \in
                     {c \in 1..Len(clusters) :
                         \E i \in 1..Len(L) :
                             Lower(L[i].name) \in SeqToSet(clusters[c][2])}}
         IN  FoldLeft(LAMBDA s, cluster_id :
                         FoldLeft(LAMBDA s2, item_name :
                                     IF InList(L, item_name) THEN s2
                                     ELSE Append(s2,
                                            [name |-> Title(item_name),
                                             category |->
                                                 SmartGuessCategory(E.category_preferences, item_name),
                                             confidence |-> <<1, 2>>,
                                             rule_type |-> "cluster_similarity"]),
                                  s,
                                  LET cluster_items == DGet(clusters, cluster_id)
                                  IN  SubSeq(cluster_items, 1,
                                             IF Len(cluster_items) < 2 THEN Len(cluster_items) ELSE 2)),
                      <<>>, IdsAscending(list_item_clusters))

\* _deduplicate_suggestions keeping, for a name proposed more than once, the
\* occurrence met last instead of the one met first
DeduplicateKeepingLast(suggestions, L) ==
    LET rev(t) == [i \in 1..Len(t) |-> t[Len(t) + 1 - i]]
    IN  rev(FoldLeft(LAMBDA acc, suggestion :
                        LET item_name == LowerStrip(suggestion.name)
                        IN  IF item_name \in acc.seen_items \/ InList(L, item_name) THEN acc
                            ELSE [seen_items |-> acc.seen_items \cup {item_name},
                                  unique_suggestions |->
                                      Append(acc.unique_suggestions, suggestion)],
                     [seen_items |-> {}, unique_suggestions |-> <<>>],
                     rev(suggestions)).unique_suggestions)

\* _deduplicate_suggestions without "not shopping_list.find_item(item_name)"
DeduplicateKeepingListed(suggestions, L) ==
    FoldLeft(LAMBDA acc, suggestion :
                LET item_name == LowerStrip(suggestion.name)
                IN  IF item_name \in acc.seen_items THEN acc
                    ELSE [seen_items |-> acc.seen_items \cup {item_name},
                          unique_suggestions |-> Append(acc.unique_suggestions, suggestion)],
             [seen_items |-> {}, unique_suggestions |-> <<>>],
             suggestions).unique_suggestions

\* _deduplicate_suggestions without "item_name not in seen_items"
DeduplicateKeepingRepeats(suggestions, L) ==
    SelectSeq(suggestions, LAMBDA suggestion : ~InList(L, LowerStrip(suggestion.name)))

\* _deduplicate_suggestions (the same code in SmartRuleEngine and RuleEngine)
DeduplicateSuggestions(suggestions, L) ==
    FoldLeft(LAMBDA acc, suggestion :
                LET item_name == LowerStrip(suggestion.name)
                IN  IF item_name \in acc.seen_items \/ InList(L, item_name) THEN acc
                    ELSE [seen_items |-> acc.seen_items \cup {item_name},
                          unique_suggestions |-> Append(acc.unique_suggestions, suggestion)],
             [seen_items |-> {}, unique_suggestions |-> <<>>],
             suggestions).unique_suggestions

\* list.sort(key=confidence, reverse=True): stable, highest confidence first
RECURSIVE InsertByConfidence(_, _)
InsertByConfidence(s, x) ==
    IF s = <<>> THEN <<x>>
    ELSE IF RLess(Head(s).confidence, x.confidence) THEN <<x>> \o s
    ELSE <<Head(s)>> \o InsertByConfidence(Tail(s), x)

\* list.sort(key=confidence) without reverse=True: lowest confidence first
SortByConfidenceAscending(s) ==
    LET rev(t) == [i \in 1..Len(t) |-> t[Len(t) + 1 - i]]
    IN  rev(FoldLeft(InsertByConfidence, <<>>, rev(s)))

SortByConfidence(s) == FoldLeft(InsertByConfidence, <<>>, s)

\* s[:n]
Take(s, n) == SubSeq(s, 1, IF Len(s) < n THEN Len(s) ELSE n)

\* return unique_suggestions[:15]
SmartMaxSuggestions == 15

\* the five generators of generate_smart_suggestions, in call order, on the models E
SmartCandidates(E, L, H, now) ==
    GetSmartPatternSuggestions(E, L, H)
        \o GetSmartAssociationSuggestions(E, L)
        \o GetSmartSeasonalSuggestions(E, L, now)
        \o GetSmartCategorySuggestions(E, L)
        \o GetClusterSuggestions(E, L)

\* generate_smart_suggestions after its learning pass left the models `learned`
SmartSuggestionsFrom(learned, L, H, now) ==
    Take(SortByConfidence(DeduplicateSuggestions(SmartCandidates(learned, L, H, now), L)),
         SmartMaxSuggestions)

\* SmartRuleEngine.generate_smart_suggestions: the returned list, E being the
\* engine's models before the call
GenerateSmartSuggestions(E, L, H, now, seed) ==
    SmartSuggestionsFrom(LearnFromPurchaseHistory(E, H, now, seed), L, H, now)


(* ------------------------------------------------------------------ *)
(* PurchaseHistory analysis and RuleEngine                             *)
(* ------------------------------------------------------------------ *)
\* PurchaseHistory.get_purchase_frequency: the fields should_suggest_item reads
GetPurchaseFrequency(H, item_name0) ==
    LET item_name == LowerStrip(item_name0)
        item_purchases == SelectSeq(H, LAMBDA item : item.name = item_name)
        dates == SortAsc([i \in 1..Len(item_purchases) |-> item_purchases[i].purchase_date])
        days_between == [i \in 1..(Len(dates) - 1) |-> dates[i + 1] - dates[i]]
        average_days == IF Len(dates) > 1 THEN Mean(days_between) ELSE RInt(0)
    IN  IF item_purchases = <<>>
        THEN [total_purchases |-> 0, last_purchase_date |-> None,
              predicted_next_purchase |-> None]
        ELSE [total_purchases |-> Len(dates),
              last_purchase_date |-> Some(dates[Len(dates)]),
              predicted_next_purchase |->
                  IF RLess(RInt(0), average_days)
                  THEN Some(RAdd(RInt(dates[Len(dates)]), average_days))
                  ELSE None]

\* should_suggest_item without "-threshold_days <=": an overdue item stays due
ShouldSuggestItemOverdue(H, item_name, threshold_days, now) ==
    LET frequency_data == GetPurchaseFrequency(H, item_name)
    IN  IF frequency_data.total_purchases = 0 THEN FALSE
        ELSE IF frequency_data.total_purchases = 1
        THEN now - frequency_data.last_purchase_date[1] >= 14
        ELSE IF frequency_data.predicted_next_purchase = None THEN FALSE
        ELSE LET days_until_predicted ==
                     RFloor(RSub(frequency_data.predicted_next_purchase[1], RInt(now)))
             IN  days_until_predicted <= threshold_days

\* should_suggest_item with "days_since > 14" for "days_since >= 14"
ShouldSuggestItemStrict(H, item_name, threshold_days, now) ==
    LET frequency_data == GetPurchaseFrequency(H, item_name)
    IN  IF frequency_data.total_purchases = 0 THEN FALSE
        ELSE IF frequency_data.total_purchases = 1
        THEN now - frequency_data.last_purchase_date[1] > 14
        ELSE IF frequency_data.predicted_next_purchase = None THEN FALSE
        ELSE LET days_until_predicted ==
                     RFloor(RSub(frequency_data.predicted_next_purchase[1], RInt(now)))
             IN  -threshold_days <= days_until_predicted
                     /\ days_until_predicted <= threshold_days

\* PurchaseHistory.should_suggest_item: the boolean of the returned pair
ShouldSuggestItem(H, item_name, threshold_days, now) ==
    LET frequency_data == GetPurchaseFrequency(H, item_name)
    IN  IF frequency_data.total_purchases = 0 THEN FALSE
        ELSE IF frequency_data.total_purchases = 1
        THEN now - frequency_data.last_purchase_date[1] >= 14
        ELSE IF frequency_data.predicted_next_purchase = None THEN FALSE
        ELSE LET days_until_predicted ==
                     RFloor(RSub(frequency_data.predicted_next_purchase[1], RInt(now)))
             IN  -threshold_days <= days_until_predicted
                     /\ days_until_predicted <= threshold_days

\* PurchaseHistory.get_category_preferences: Counter of the categories
GetCategoryPreferences(H) ==
    FoldLeft(LAMBDA c, item : DInc(c, item.category, 1), <<>>, H)

\* GroceryItem.days_until_expiry
DaysUntilExpiry(item, now) == item.purchase_date + item.expiration_days - now

\* GroceryItem.is_expiring_soon
IsExpiringSoon(item, now) == 0 <= DaysUntilExpiry(item, now) /\ DaysUntilExpiry(item, now) <= 3

\* RuleEngine.item_associations
RuleItemAssociations ==
    <<<<"pasta", <<"pasta sauce", "cheese", "garlic">>>>,
      <<"bread", <<"butter", "jam", "cheese">>>>,
      <<"cereal", <<"milk">>>>,
      <<"coffee", <<"milk", "sugar">>>>,
      <<"tea", <<"sugar", "honey", "lemon">>>>,
      <<"rice", <<"soy sauce", "vegetables">>>>,
      <<"chicken", <<"vegetables", "spices">>>>,
      <<"fish", <<"lemon", "vegetables">>>>,
      <<"potatoes", <<"butter", "cheese">>>>,
      <<"salad", <<"dressing", "tomatoes", "cucumber">>>>,
      <<"yogurt", <<"honey", "fruits">>>>,
      <<"oatmeal", <<"fruits", "honey", "milk">>>>>>

\* RuleEngine.category_suggestions
RuleCategorySuggestions ==
    <<<<"dairy", <<"milk", "cheese", "yogurt", "butter">>>>,
      <<"fruits", <<"bananas", "apples", "oranges">>>>,
      <<"vegetables", <<"onions", "tomatoes", "carrots", "potatoes">>>>,
      <<"protein", <<"chicken", "fish", "eggs", "beans">>>>,
      <<"grains", <<"rice", "pasta", "bread", "oats">>>>>>

\* RuleEngine.seasonal_items, month 1 first
RuleSeasonalItems ==
    <<<<"oranges", "winter vegetables", "soup ingredients">>,
      <<"citrus fruits", "warm beverages">>,
      <<"spring vegetables", "fresh herbs">>,
      <<"asparagus", "spring onions">>,
      <<"strawberries", "fresh greens">>,
      <<"summer fruits", "berries">>,
      <<"tomatoes", "summer vegetables">>,
      <<"peaches", "corn", "zucchini">>,
      <<"apples", "autumn vegetables">>,
      <<"pumpkins", "squash", "apples">>,
      <<"root vegetables", "cranberries">>,
      <<"winter citrus", "holiday spices">>>>

\* RuleEngine._guess_category
RuleGuessCategory(item_name) == KeywordCategoryTable[Lower(item_name)]

\* RuleEngine._get_pattern_suggestions
GetPatternSuggestions(L, H, now, seed) ==
    LET recent_purchases == GetRecentPurchases(H, 60, now)
        unique_items ==
            SetToList({recent_purchases[i].name : i \in 1..Len(recent_purchases)}, seed)
    IN  FoldLeft(LAMBDA s, item_name :
                    IF InList(L, item_name) THEN s
                    ELSE IF ShouldSuggestItem(H, item_name, 7, now)
                    THEN Append(s,
                           [name |-> item_name,
                            category |->
                                SelectSeq(recent_purchases,
                                          LAMBDA item : item.name = item_name)[1].category,
                            confidence |-> <<4, 5>>,
                            rule_type |-> "pattern"])
                    ELSE s,
                 <<>>, unique_items)

\* RuleEngine._get_association_suggestions
GetAssociationSuggestions(L) ==
    FoldLeft(LAMBDA s, item :
                LET item_name == Lower(item.name)
                IN  FoldLeft(LAMBDA s1, kv :
                                IF Contains(item_name, kv[1]) \/ Contains(kv[1], item_name)
                                THEN FoldLeft(LAMBDA s2, associated_item :
                                                 IF InList(L, associated_item) THEN s2
                                                 ELSE Append(s2,
                                                        [name |-> associated_item,
                                                         category |->
                                                             RuleGuessCategory(associated_item),
                                                         confidence |-> <<3, 5>>,
                                                         rule_type |-> "association"]),
                                              s1, kv[2])
                                ELSE s1,
                             s, RuleItemAssociations),
             <<>>, L)

\* RuleEngine._get_seasonal_suggestions
GetSeasonalSuggestions(L, now) ==
    FoldLeft(LAMBDA s, item_name :
                IF InList(L, item_name) THEN s
                ELSE Append(s, [name |-> item_name,
                                category |-> RuleGuessCategory(item_name),
                                confidence |-> <<2, 5>>,
                                rule_type |-> "seasonal"]),
             <<>>, RuleSeasonalItems[Month(now)])

\* _get_category_suggestions with "purchase_count >= 3" for "purchase_count > 3"
CategorySuggestionsFromThree(L, H) ==
    LET current_categories == {L[i].category : i \in 1..Len(L)}
    IN  FoldLeft(LAMBDA s, kv :
                    IF kv[1] \notin current_categories /\ kv[2] >= 3
                           /\ DHas(RuleCategorySuggestions, kv[1])
                    THEN FoldLeft(LAMBDA s2, item_name :
                                     IF InList(L, item_name) THEN s2
                                     ELSE Append(s2, [name |-> item_name,
                                                      category |-> kv[1],
                                                      confidence |-> <<1, 2>>,
                                                      rule_type |-> "category_balance"]),
                                  s, SubSeq(DGet(RuleCategorySuggestions, kv[1]), 1, 2))
                    ELSE s,
                 <<>>, GetCategoryPreferences(H))

\* RuleEngine._get_category_suggestions
GetCategorySuggestions(L, H) ==
    LET current_categories == {L[i].category : i \in 1..Len(L)}
    IN  FoldLeft(LAMBDA s, kv :
                    IF kv[1] \notin current_categories /\ kv[2] > 3
                           /\ DHas(RuleCategorySuggestions, kv[1])
                    THEN FoldLeft(LAMBDA s2, item_name :
                                     IF InList(L, item_name) THEN s2
                                     ELSE Append(s2, [name |-> item_name,
                                                      category |-> kv[1],
                                                      confidence |-> <<1, 2>>,
                                                      rule_type |-> "category_balance"]),
                                  s, Take(DGet(RuleCategorySuggestions, kv[1]), 2))
                    ELSE s,
                 <<>>, GetCategoryPreferences(H))

\* RuleEngine._get_expiration_replacement_suggestions
GetExpirationReplacementSuggestions(H, now) ==
    FoldLeft(LAMBDA s, item :
                IF IsExpiringSoon(item, now)
                THEN Append(s, [name |-> item.name,
                                category |-> item.category,
                                confidence |-> <<7, 10>>,
                                rule_type |-> "expiration_replacement"])
                ELSE s,
             <<>>, GetRecentPurchases(H, 7, now))

\* return unique_suggestions[:10]
RuleMaxSuggestions == 10

\* the five generators of RuleEngine.generate_suggestions, in call order
RuleCandidates(L, H, now, seed) ==
    GetPatternSuggestions(L, H, now, seed)
        \o GetAssociationSuggestions(L)
        \o GetSeasonalSuggestions(L, now)
        \o GetCategorySuggestions(L, H)
        \o GetExpirationReplacementSuggestions(H, now)

\* RuleEngine.generate_suggestions
GenerateSuggestions(L, H, now, seed) ==
    Take(SortByConfidence(DeduplicateSuggestions(RuleCandidates(L, H, now, seed), L)),
         RuleMaxSuggestions)


(* ------------------------------------------------------------------ *)
(* The applications: the ML routes with their process-wide             *)
(* SmartRuleEngine, and the suggestion route with its RuleEngine       *)
(* ------------------------------------------------------------------ *)
VARIABLES
    app,                    \* which application runs: "smart" or "rule"
    item_associations,      \* self.item_associations
    seasonal_patterns,      \* self.seasonal_patterns
    category_preferences,   \* self.category_preferences
    purchase_patterns,      \* self.purchase_patterns
    item_clusters,          \* self.item_clusters
    model_files,            \* the files under models/
    clock,                  \* position of datetime.now() in ClockDays
    hash_seed,              \* the string hash seed of the process
    calls,                  \* calls made on the engine since the process started
    last,                   \* the last call: operation, arguments, instant, returned value
    requests,               \* the requests in flight on the threaded server
    items,                  \* ShoppingList._items
    objects,                \* the GroceryItem objects of the history and of its caller
    purchases,              \* PurchaseHistory._purchases: the objects it refers to
    caller_item             \* the object the caller passed to add_purchase last

vars ==
    <<app, item_associations, seasonal_patterns, category_preferences, purchase_patterns,
      item_clusters, model_files, clock, hash_seed, calls, last, requests,
      items, objects, purchases, caller_item>>

data_vars == <<items, objects, purchases, caller_item>>

engine_vars ==
    <<item_associations, seasonal_patterns, category_preferences, purchase_patterns,
      item_clusters>>

\* the engine's learned models as one value
Engine ==
    [item_associations |-> item_associations, seasonal_patterns |-> seasonal_patterns,
     category_preferences |-> category_preferences, purchase_patterns |-> purchase_patterns,
     item_clusters |-> item_clusters]

\* the engine's learned models in the next state
EngineNext ==
    [item_associations |-> item_associations', seasonal_patterns |-> seasonal_patterns',
     category_preferences |-> category_preferences', purchase_patterns |-> purchase_patterns',
     item_clusters |-> item_clusters']

SetEngine(E) ==
    /\ item_associations' = E.item_associations
    /\ seasonal_patterns' = E.seasonal_patterns
    /\ category_preferences' = E.category_preferences
    /\ purchase_patterns' = E.purchase_patterns
    /\ item_clusters' = E.item_clusters

Now == ClockDays[clock]

\* the hash seeds a process may run with
HashSeeds == {0, 1}

\* the threads that serve requests at the same time
Requests == {1, 2}

NoCall ==
    [op |-> "none", L |-> <<>>, H |-> <<>>, now |-> 0, result |-> <<>>, repeat |-> FALSE,
     args |-> <<>>]

Idle == [pc |-> "idle", L |-> <<>>, H |-> <<>>, alone |-> <<>>, result |-> <<>>]

\* a deployment without model files; smart_rule_engine = SmartRuleEngine() has run
InitEngine ==
    /\ model_files = NoFiles
    /\ item_associations = LoadOrInitializeModels(NoFiles).item_associations
    /\ seasonal_patterns = LoadOrInitializeModels(NoFiles).seasonal_patterns
    /\ category_preferences = LoadOrInitializeModels(NoFiles).category_preferences
    /\ purchase_patterns = LoadOrInitializeModels(NoFiles).purchase_patterns
    /\ item_clusters = LoadOrInitializeModels(NoFiles).item_clusters
    /\ hash_seed \in HashSeeds
    /\ calls = 0
    /\ last = NoCall
    /\ requests = [r \in Requests |-> Idle]
    /\ items = <<>>
    /\ objects = <<>>
    /\ purchases = <<>>
    /\ caller_item = None

Init ==
    /\ app \in {"smart", "rule"}
    /\ clock = 1
    /\ InitEngine

\* POST /api/ml/learn-from-purchase: smart_rule_engine.learn_from_purchase_history(H)
LearnFromPurchase(H) ==
    /\ app = "smart"
    /\ calls < MaxCalls
    /\ \E learned \in {LearnFromPurchaseHistory(Engine, H, Now, hash_seed)} :
           /\ SetEngine(learned)
           /\ model_files' = FilesAfterLearning(model_files, learned, H)
    /\ calls' = calls + 1
    /\ last' = [op |-> "learn", L |-> <<>>, H |-> H, now |-> Now, result |-> <<>>,
                repeat |-> FALSE, args |-> <<>>]
    /\ UNCHANGED <<data_vars, app, clock, hash_seed, requests>>

\* GET /api/ml/smart-suggestions: smart_rule_engine.generate_smart_suggestions(L, H)
GetSmartSuggestions(L, H) ==
    /\ app = "smart"
    /\ calls < MaxCalls
    /\ \E learned \in {LearnFromPurchaseHistory(Engine, H, Now, hash_seed)} :
           /\ SetEngine(learned)
           /\ model_files' = FilesAfterLearning(model_files, learned, H)
           /\ last' = [op |-> "smart", L |-> L, H |-> H, now |-> Now,
                       result |-> SmartSuggestionsFrom(learned, L, H, Now),
                       repeat |-> (last.op = "smart" /\ last.L = L /\ last.H = H
                                      /\ last.now = Now),
                       args |-> <<>>]
    /\ calls' = calls + 1
    /\ UNCHANGED <<data_vars, app, clock, hash_seed, requests>>

\* GET /suggestions: rule_engine.generate_suggestions(L, H)
GetSuggestions(L, H) ==
    /\ app = "rule"
    /\ last' = [op |-> "rule", L |-> L, H |-> H, now |-> Now,
                result |-> GenerateSuggestions(L, H, Now, hash_seed),
                repeat |-> FALSE, args |-> <<>>]
    /\ UNCHANGED <<data_vars, app, engine_vars, model_files, clock, hash_seed, calls, requests>>

\* the process is started again: smart_rule_engine = SmartRuleEngine() reads the files
NewEngine ==
    /\ app = "smart"
    /\ last.op \in {"learn", "smart"}
    /\ SetEngine(LoadOrInitializeModels(model_files))
    /\ last' = [NoCall EXCEPT !.op = "init"]
    /\ calls' = 0
    /\ UNCHANGED <<data_vars, app, model_files, clock, hash_seed, requests>>

\* time passes
Tick ==
    /\ clock < Len(ClockDays)
    /\ clock' = clock + 1
    /\ UNCHANGED <<data_vars, app, engine_vars, model_files, hash_seed, calls, last, requests>>

Next ==
    \/ \E H \in Histories : LearnFromPurchase(H)
    \/ \E L \in ShoppingLists, H \in Histories : GetSmartSuggestions(L, H)
    \/ \E L \in ShoppingLists, H \in Histories : GetSuggestions(L, H)
    \/ NewEngine
    \/ Tick

Spec == Init /\ [][Next]_vars

(* ------------------------------------------------------------------ *)
(* Two requests served at the same time by the threaded server, both   *)
(* calling generate_smart_suggestions on the process-wide engine       *)
(* ------------------------------------------------------------------ *)
InitConc ==
    /\ app = "smart"
    /\ clock = 1
    /\ InitEngine

\* a thread receives GET /api/ml/smart-suggestions and loads its L and H
BeginRequest(r, L, H) ==
    /\ requests[r].pc = "idle"
    /\ requests' = [requests EXCEPT ![r] = [Idle EXCEPT !.pc = "learn", !.L = L, !.H = H]]
    /\ UNCHANGED <<data_vars, app, engine_vars, model_files, clock, hash_seed, calls, last>>

\* the thread runs self.learn_from_purchase_history(purchase_history); `alone`
\* is the list the rest of the call returns when no other thread runs meanwhile
LearnStep(r) ==
    /\ requests[r].pc = "learn"
    /\ \E learned \in {LearnFromPurchaseHistory(Engine, requests[r].H, Now, hash_seed)} :
           /\ SetEngine(learned)
           /\ model_files' = FilesAfterLearning(model_files, learned, requests[r].H)
           /\ requests' = [requests EXCEPT
                  ![r].pc = "suggest",
                  ![r].alone = SmartSuggestionsFrom(learned, requests[r].L, requests[r].H, Now)]
    /\ UNCHANGED <<data_vars, app, clock, hash_seed, calls, last>>

\* the thread runs the five generators, de-duplicates, sorts and returns
SuggestStep(r) ==
    /\ requests[r].pc = "suggest"
    /\ requests' = [requests EXCEPT
           ![r].pc = "done",
           ![r].result = SmartSuggestionsFrom(Engine, requests[r].L, requests[r].H, Now)]
    /\ UNCHANGED <<data_vars, app, engine_vars, model_files, clock, hash_seed, calls, last>>

NextConc ==
    \/ \E r \in Requests, L \in ShoppingLists, H \in Histories : BeginRequest(r, L, H)
    \/ \E r \in Requests : LearnStep(r)
    \/ \E r \in Requests : SuggestStep(r)

SpecConc == InitConc /\ [][NextConc]_vars

(* ------------------------------------------------------------------ *)
(* Learning passes made directly on one engine object, over histories  *)
(* with repeated records on one day, several months and longer gaps    *)
(* ------------------------------------------------------------------ *)
\* the instants datetime.now() takes in these runs, as day numbers
LearnDays == <<28, 300>>

LearnNow == LearnDays[clock]

\* the purchase records of the histories: <<name, category, day>>
LearnPool ==
    << \* the same two items recorded twice on one day
       << <<"milk", "dairy", 0>>, <<"milk", "dairy", 0>>,
          <<"bread", "grains", 0>>, <<"bread", "grains", 0>> >>,
       \* one item on days 0, 10, 20, recorded out of order
       << <<"eggs", "protein", 20>>, <<"eggs", "protein", 0>>, <<"eggs", "protein", 10>> >>,
       \* two trips with the same pair, three distinct items
       << <<"milk", "dairy", 0>>, <<"bread", "grains", 0>>, <<"eggs", "protein", 0>>,
          <<"milk", "dairy", 10>>, <<"bread", "grains", 10>> >>,
       \* four baskets: milk in three, bread in two, eggs alone in one
       << <<"milk", "dairy", 0>>, <<"bread", "grains", 0>>, <<"milk", "dairy", 10>>,
          <<"bread", "grains", 10>>, <<"milk", "dairy", 20>>, <<"eggs", "protein", 8>> >>,
       \* month 10: milk three times out of four records
       << <<"milk", "dairy", 270>>, <<"bread", "grains", 270>>, <<"milk", "dairy", 275>>,
          <<"milk", "dairy", 280>> >>,
       \* month 10: eggs once out of ten records
       << <<"milk", "dairy", 275>>, <<"milk", "dairy", 275>>, <<"milk", "dairy", 275>>,
          <<"milk", "dairy", 280>>, <<"milk", "dairy", 280>>, <<"milk", "dairy", 280>>,
          <<"eggs", "protein", 280>>,
          <<"milk", "dairy", 290>>, <<"milk", "dairy", 290>>, <<"milk", "dairy", 290>> >> >>

\* PurchaseHistory.add_multiple_purchases of the records of one pool entry
LearnHistories ==
    { [i \in 1..Len(LearnPool[h]) |->
          GroceryItem(LearnPool[h][i][1], LearnPool[h][i][2], LearnPool[h][i][3])] :
      h \in 1..Len(LearnPool) }

InitLearn ==
    /\ app = "smart"
    /\ clock = 1
    /\ InitEngine

\* engine.learn_from_purchase_history(H), H holding no purchase later than now
LearnPass(H) ==
    /\ calls < MaxCalls
    /\ \A i \in 1..Len(H) : H[i].purchase_date <= LearnNow
    /\ \E learned \in {LearnFromPurchaseHistory(Engine, H, LearnNow, hash_seed)} :
           /\ SetEngine(learned)
           /\ model_files' = FilesAfterLearning(model_files, learned, H)
    /\ calls' = calls + 1
    /\ last' = [NoCall EXCEPT !.op = "learn", !.H = H, !.now = LearnNow]
    /\ UNCHANGED <<data_vars, app, clock, hash_seed, requests>>

\* time passes between two passes
LearnTick ==
    /\ clock < Len(LearnDays)
    /\ clock' = clock + 1
    /\ UNCHANGED <<data_vars, app, engine_vars, model_files, hash_seed, calls, last, requests>>

NextLearn ==
    \/ \E H \in LearnHistories : LearnPass(H)
    \/ LearnTick

SpecLearn == InitLearn /\ [][NextLearn]_vars

(* ------------------------------------------------------------------ *)
(* The pattern generator of RuleEngine on histories whose items were   *)
(* bought once, at chosen ages, or twice                               *)
(* ------------------------------------------------------------------ *)
\* the ages in whole days of the single purchases
PatternAges == <<10, 13, 14, 15, 60, 61>>

\* the ages of the two purchases of an item that was bought twice
RepeatAges == <<20, 10>>

PatternItems == << <<"milk", "dairy">>, <<"bread", "grains">>, <<"eggs", "protein">> >>

\* the ages of the purchases of an item that was bought two or three times:
\* predicted for today, 7 and 8 days overdue, 7.5 days overdue, due in 7.5, 7
\* and 8 days, and predicted for today with the last purchase 65 and 50 days old
RepeatPool ==
    << RepeatAges, <<21, 14>>, <<22, 15>>, <<30, 25, 15>>, <<15, 10, 0>>,
       <<9, 1>>, <<10, 1>>, <<130, 65>>, <<100, 50>> >>

\* the records of item k under choice c: none (0), one purchase PatternAges[c]
\* days before `now`, or the purchases of one entry of RepeatPool
PatternRecords(k, c, now) ==
    IF c = 0 THEN <<>>
    ELSE IF c <= Len(PatternAges)
    THEN <<GroceryItem(PatternItems[k][1], PatternItems[k][2], now - PatternAges[c])>>
    ELSE [i \in 1..Len(RepeatPool[c - Len(PatternAges)]) |->
             GroceryItem(PatternItems[k][1], PatternItems[k][2],
                         now - RepeatPool[c - Len(PatternAges)][i])]

PatternHistories(now) ==
    { PatternRecords(1, c[1], now) \o PatternRecords(2, c[2], now) \o PatternRecords(3, c[3], now) :
        c \in [1..Len(PatternItems) -> 0..(Len(PatternAges) + Len(RepeatPool))] }

\* a RuleEngine process that has received one request with L and H
InitPattern ==
    /\ app = "rule"
    /\ clock = Len(LearnDays)
    /\ model_files = NoFiles
    /\ item_associations = LoadOrInitializeModels(NoFiles).item_associations
    /\ seasonal_patterns = LoadOrInitializeModels(NoFiles).seasonal_patterns
    /\ category_preferences = LoadOrInitializeModels(NoFiles).category_preferences
    /\ purchase_patterns = LoadOrInitializeModels(NoFiles).purchase_patterns
    /\ item_clusters = LoadOrInitializeModels(NoFiles).item_clusters
    /\ hash_seed \in HashSeeds
    /\ calls = 0
    /\ \E L \in ShoppingLists, H \in PatternHistories(LearnDays[Len(LearnDays)]) :
           last = [NoCall EXCEPT !.op = "request", !.L = L, !.H = H]
    /\ requests = [r \in Requests |-> Idle]
    /\ items = <<>>
    /\ objects = <<>>
    /\ purchases = <<>>
    /\ caller_item = None

\* rule_engine._get_pattern_suggestions(L, H), the first rule of generate_suggestions
PatternSuggestions ==
    /\ last.op = "request"
    /\ last' = [last EXCEPT !.op = "pattern", !.now = LearnNow,
                            !.result = GetPatternSuggestions(last.L, last.H, LearnNow, hash_seed)]
    /\ UNCHANGED <<data_vars, app, engine_vars, model_files, clock, hash_seed, calls, requests>>

NextPattern == PatternSuggestions

SpecPattern == InitPattern /\ [][NextPattern]_vars

(* ------------------------------------------------------------------ *)
(* DataManager.load_purchase_history on stored records whose purchase  *)
(* date is well-formed, missing or malformed                           *)
(* ------------------------------------------------------------------ *)
\* the records a purchase_history.json may hold: name, category, day
StoredPool == << <<"milk", "dairy", 0>>, <<"bread", "grains", 5>>, <<"eggs", "protein", 20>> >>

\* 'purchase_date' of a stored record: an ISO date, absent or null, or a string
\* that datetime.fromisoformat rejects
DateForms == {"valid", "missing", "malformed"}

\* the files: none, or the first n records of the pool, each date in any form
StoredFiles ==
    {None} \cup
    UNION { { Some([i \in 1..n |->
                     [name |-> StoredPool[i][1], category |-> StoredPool[i][2],
                      date_form |-> f[i], day |-> StoredPool[i][3]]]) :
                f \in [1..n -> DateForms] } :
            n \in 0..Len(StoredPool) }

\* GroceryItem.from_dict: the item built, and whether fromisoformat raised
FromDict(data, now) ==
    [raised |-> data.date_form = "malformed",
     item |-> GroceryItem(data.name, data.category,
                          IF data.date_form = "valid" THEN data.day ELSE now)]

\* PurchaseHistory.from_dict: the purchases appended, and whether an item raised
PurchaseHistoryFromDict(data, now) ==
    [raised |-> \E i \in 1..Len(data) : FromDict(data[i], now).raised,
     purchases |-> [i \in 1..Len(data) |-> FromDict(data[i], now).item]]

\* DataManager.load_purchase_history: the purchases of the history returned
LoadPurchaseHistory(file, now) ==
    IF file = None THEN <<>>
    ELSE IF PurchaseHistoryFromDict(file[1], now).raised THEN <<>>
    ELSE PurchaseHistoryFromDict(file[1], now).purchases

\* a process with a purchase_history.json on disk, before the history is loaded
InitLoad ==
    /\ app \in {"smart", "rule"}
    /\ clock = 1
    /\ model_files = NoFiles
    /\ item_associations = LoadOrInitializeModels(NoFiles).item_associations
    /\ seasonal_patterns = LoadOrInitializeModels(NoFiles).seasonal_patterns
    /\ category_preferences = LoadOrInitializeModels(NoFiles).category_preferences
    /\ purchase_patterns = LoadOrInitializeModels(NoFiles).purchase_patterns
    /\ item_clusters = LoadOrInitializeModels(NoFiles).item_clusters
    /\ hash_seed \in HashSeeds
    /\ calls = 0
    /\ \E file \in StoredFiles : last = [NoCall EXCEPT !.op = "request", !.args = file]
    /\ requests = [r \in Requests |-> Idle]
    /\ items = <<>>
    /\ objects = <<>>
    /\ purchases = <<>>
    /\ caller_item = None

\* purchase_history = data_manager.load_purchase_history()
LoadHistory ==
    /\ last.op = "request"
    /\ \E loaded \in {LoadPurchaseHistory(last.args, Now)} :
           /\ objects' = loaded
           /\ purchases' = [i \in 1..Len(loaded) |-> i]
    /\ last' = [last EXCEPT !.op = "load", !.now = Now]
    /\ UNCHANGED <<app, engine_vars, model_files, clock, hash_seed, calls, requests,
                   items, caller_item>>

NextLoad == LoadHistory

SpecLoad == InitLoad /\ [][NextLoad]_vars

(* ------------------------------------------------------------------ *)
(* One ShoppingList object under add_item, remove_item,                *)
(* update_quantity and clear_list                                      *)
(* ------------------------------------------------------------------ *)
\* the largest total quantity the list is let to reach
MaxQuantity == 3

\* ShoppingList.item_count
ItemCount(L) == Len(L)

\* ShoppingList.total_quantity
TotalQuantity(L) == SumSeq([i \in 1..Len(L) |-> L[i].quantity])

\* ShoppingList.find_item(name, category): the position of the first match, or 0
FindIndex(L, name, category) ==
    LET hits == {i \in 1..Len(L) :
                    /\ L[i].name = LowerStrip(name)
                    /\ (category = None \/ L[i].category = LowerStrip(category[1]))}
    IN  IF hits = {} THEN 0 ELSE CHOOSE i \in hits : \A j \in hits : i <= j

\* list.remove(x): drop the first element equal to x under GroceryItem.__eq__
ListRemove(L, x) ==
    LET k == CHOOSE i \in 1..Len(L) :
                 /\ L[i].name = x.name /\ L[i].category = x.category
                 /\ \A j \in 1..(i - 1) : ~(L[j].name = x.name /\ L[j].category = x.category)
    IN  SubSeq(L, 1, k - 1) \o SubSeq(L, k + 1, Len(L))

\* add_item that appends without looking for an existing entry
AddItemAlwaysAppend(L, item) == [list |-> Append(L, item), result |-> TRUE]

\* ShoppingList.add_item: the list afterwards and the value returned
AddItem(L, item) ==
    LET k == FindIndex(L, item.name, Some(item.category))
    IN  IF k # 0
        THEN [list |-> [L EXCEPT ![k].quantity = @ + item.quantity], result |-> TRUE]
        ELSE [list |-> Append(L, item), result |-> TRUE]

\* ShoppingList.remove_item
RemoveItem(L, name, category) ==
    LET k == FindIndex(L, name, category)
    IN  IF k # 0 THEN [list |-> ListRemove(L, L[k]), result |-> TRUE]
        ELSE [list |-> L, result |-> FALSE]

\* ShoppingList.update_quantity
UpdateQuantity(L, name, new_quantity, category) ==
    LET k == FindIndex(L, name, category)
    IN  IF k # 0
        THEN (IF new_quantity <= 0 THEN RemoveItem(L, name, category)
              ELSE [list |-> [L EXCEPT ![k].quantity = new_quantity], result |-> TRUE])
        ELSE [list |-> L, result |-> FALSE]

\* the names and categories the caller passes
ListNames == {"Milk", "bread", "tea"}

ListCategories == {"dairy", "grains"}

\* a new ShoppingList(); no operation of the list iterates over a set, so one
\* hash seed is enough
InitList ==
    /\ app = "rule"
    /\ clock = 1
    /\ InitEngine
    /\ hash_seed = 0

\* shopping_list.add_item(GroceryItem(name, category, quantity))
AddItemCall(name, category, quantity) ==
    /\ TotalQuantity(items) + quantity <= MaxQuantity
    /\ \E item \in {[GroceryItem(name, category, Now) EXCEPT !.quantity = quantity]} :
           /\ items' = AddItem(items, item).list
           /\ last' = [NoCall EXCEPT !.op = "add_item", !.L = items, !.args = <<item>>,
                                     !.result = AddItem(items, item).result]
    /\ UNCHANGED <<app, engine_vars, model_files, clock, hash_seed, calls, requests,
                   objects, purchases, caller_item>>

\* shopping_list.remove_item(name, category)
RemoveItemCall(name, category) ==
    /\ items' = RemoveItem(items, name, category).list
    /\ last' = [NoCall EXCEPT !.op = "remove_item", !.L = items, !.args = <<name, category>>,
                              !.result = RemoveItem(items, name, category).result]
    /\ UNCHANGED <<app, engine_vars, model_files, clock, hash_seed, calls, requests,
                   objects, purchases, caller_item>>

\* shopping_list.update_quantity(name, new_quantity, category)
UpdateQuantityCall(name, new_quantity, category) ==
    /\ TotalQuantity(UpdateQuantity(items, name, new_quantity, category).list) <= MaxQuantity
    /\ items' = UpdateQuantity(items, name, new_quantity, category).list
    /\ last' = [NoCall EXCEPT !.op = "update_quantity", !.L = items,
                              !.args = <<name, category, new_quantity>>,
                              !.result = UpdateQuantity(items, name, new_quantity, category).result]
    /\ UNCHANGED <<app, engine_vars, model_files, clock, hash_seed, calls, requests,
                   objects, purchases, caller_item>>

\* shopping_list.clear_list()
ClearListCall ==
    /\ items' = <<>>
    /\ last' = [NoCall EXCEPT !.op = "clear_list", !.L = items]
    /\ UNCHANGED <<app, engine_vars, model_files, clock, hash_seed, calls, requests,
                   objects, purchases, caller_item>>

NextList ==
    \/ \E name \in ListNames, category \in ListCategories, quantity \in {1, 2} :
           AddItemCall(name, category, quantity)
    \/ \E name \in ListNames, category \in {None} \cup {Some(c) : c \in ListCategories} :
           RemoveItemCall(name, category)
    \/ \E name \in ListNames, new_quantity \in {-1, 0, 2},
          category \in {None} \cup {Some(c) : c \in ListCategories} :
           UpdateQuantityCall(name, new_quantity, category)
    \/ ClearListCall

SpecList == InitList /\ [][NextList]_vars

(* ------------------------------------------------------------------ *)
(* One PurchaseHistory object and the GroceryItem objects of its       *)
(* caller; `objects` holds every object, `purchases` refers to them    *)
(* ------------------------------------------------------------------ *)
\* the number of add_purchase calls made in a run
MaxPurchases == 3

\* PurchaseHistory.total_purchases
TotalPurchases(purch) == Len(purch)

\* add_purchase that appends the object it was given instead of a copy
AddPurchaseSameObject(objs, purch, item) ==
    [objects |-> objs, purchases |-> Append(purch, item)]

\* PurchaseHistory.add_purchase(item): a new GroceryItem is built from the
\* fields of the object `item` and appended
AddPurchase(objs, purch, item) ==
    LET purchase_item ==
            [GroceryItem(objs[item].name, objs[item].category, objs[item].purchase_date)
                EXCEPT !.quantity = objs[item].quantity,
                       !.expiration_days = objs[item].expiration_days]
    IN  [objects |-> Append(objs, purchase_item),
         purchases |-> Append(purch, Len(objs) + 1)]

\* the purchased items the caller builds: name, category
PurchasePool == {<<"milk", "dairy">>, <<"Bread", "grains">>}

\* the names the caller assigns to an item object afterwards
ChangedNames == {"Milk", "tea"}

\* the names the caller asks the frequency of
AskedNames == {"milk", "Milk", "bread", "tea", " item"}

\* a new PurchaseHistory()
InitHistory ==
    /\ app = "rule"
    /\ clock = 1
    /\ InitEngine
    /\ hash_seed = 0

\* item = GroceryItem(name, category); history.add_purchase(item)
AddPurchaseCall(name, category) ==
    /\ calls < MaxPurchases
    /\ \E objs \in {Append(objects, GroceryItem(name, category, Now))} :
           /\ objects' = AddPurchase(objs, purchases, Len(objs)).objects
           /\ purchases' = AddPurchase(objs, purchases, Len(objs)).purchases
           /\ caller_item' = Some(Len(objs))
           /\ last' = [NoCall EXCEPT !.op = "add_purchase", !.args = <<Len(objs)>>, !.now = Now]
    /\ calls' = calls + 1
    /\ UNCHANGED <<app, engine_vars, model_files, clock, hash_seed, requests, items>>

\* history.add_purchase(item) with the object the caller still holds
AddPurchaseAgain ==
    /\ calls < MaxPurchases
    /\ caller_item # None
    /\ objects' = AddPurchase(objects, purchases, caller_item[1]).objects
    /\ purchases' = AddPurchase(objects, purchases, caller_item[1]).purchases
    /\ last' = [NoCall EXCEPT !.op = "add_purchase", !.args = caller_item, !.now = Now]
    /\ calls' = calls + 1
    /\ UNCHANGED <<app, engine_vars, model_files, clock, hash_seed, requests, items,
                   caller_item>>

\* item.name = name; item.quantity = 2 : the caller changes the object it passed
CallerChangesItem(name) ==
    /\ caller_item # None
    /\ objects[caller_item[1]].name # name
    /\ objects' = [objects EXCEPT ![caller_item[1]].name = name,
                                  ![caller_item[1]].quantity = 2]
    /\ last' = [NoCall EXCEPT !.op = "change", !.args = <<name>>]
    /\ UNCHANGED <<app, engine_vars, model_files, clock, hash_seed, calls, requests, items,
                   purchases, caller_item>>

\* history.get_purchase_frequency(name)['total_purchases']
GetPurchaseFrequencyCall(name) ==
    /\ last' = [NoCall EXCEPT
                   !.op = "get_purchase_frequency", !.args = <<name>>,
                   !.result = GetPurchaseFrequency(
                                  [i \in 1..Len(purchases) |-> objects[purchases[i]]],
                                  name).total_purchases]
    /\ UNCHANGED <<data_vars, app, engine_vars, model_files, clock, hash_seed, calls, requests>>

NextHistory ==
    \/ \E p \in PurchasePool : AddPurchaseCall(p[1], p[2])
    \/ AddPurchaseAgain
    \/ \E name \in ChangedNames : CallerChangesItem(name)
    \/ \E name \in AskedNames : GetPurchaseFrequencyCall(name)

SpecHistory == InitHistory /\ [][NextHistory]_vars

(* ------------------------------------------------------------------ *)
(* generate_smart_suggestions called directly on one engine object,    *)
(* over histories with weak rules, five item names and several months  *)
(* ------------------------------------------------------------------ *)
\* the purchase records of the histories: <<name, category, day>>
SmartPool ==
    << \* six baskets in six months: bread in five, milk in three (two with bread)
       << <<"bread", "grains", 30>>, <<"milk", "dairy", 30>>,
          <<"bread", "grains", 150>>, <<"milk", "dairy", 150>>,
          <<"bread", "grains", 210>>, <<"bread", "grains", 240>>,
          <<"bread", "grains", 270>>, <<"milk", "dairy", 300>> >>,
       \* five item names in month 1, tea twice out of six records
       << <<"tea", "beverages", 10>>, <<"milk", "dairy", 10>>,
          <<"tea", "beverages", 18>>, <<"rice", "grains", 18>>,
          <<"bread", "grains", 18>>, <<"eggs", "protein", 18>> >>,
       \* two items recorded twice on one day
       LearnPool[1],
       \* two trips with the same pair, three distinct items
       LearnPool[3] >>

\* PurchaseHistory.add_multiple_purchases of the records of one pool entry
SmartHistories ==
    { [i \in 1..Len(SmartPool[h]) |->
          GroceryItem(SmartPool[h][i][1], SmartPool[h][i][2], SmartPool[h][i][3])] :
      h \in 1..Len(SmartPool) }

\* engine.generate_smart_suggestions(L, H), H holding no purchase later than now
SmartSuggestionsCall(L, H) ==
    /\ calls < MaxCalls
    /\ \A i \in 1..Len(H) : H[i].purchase_date <= LearnNow
    /\ \E learned \in {LearnFromPurchaseHistory(Engine, H, LearnNow, hash_seed)} :
           /\ SetEngine(learned)
           /\ model_files' = FilesAfterLearning(model_files, learned, H)
           /\ last' = [NoCall EXCEPT !.op = "smart", !.L = L, !.H = H, !.now = LearnNow,
                                     !.result = SmartSuggestionsFrom(learned, L, H, LearnNow)]
    /\ calls' = calls + 1
    /\ UNCHANGED <<data_vars, app, clock, hash_seed, requests>>

NextSmart ==
    \/ \E L \in ShoppingLists, H \in SmartHistories : SmartSuggestionsCall(L, H)
    \/ LearnTick

SpecSmart == InitLearn /\ [][NextSmart]_vars

(* ------------------------------------------------------------------ *)
(* The category generator of RuleEngine on histories whose categories  *)
(* were purchased 0, 3 or 4 times                                      *)
(* ------------------------------------------------------------------ *)
\* the item bought in each category of the histories: <<name, category>>
BalanceItems ==
    << <<"milk", "dairy">>, <<"tea", "beverages">>, <<"bread", "grains">> >>

\* how many purchase records a history may hold of one category
BalanceCounts == {0, 3, 4}

\* the items a shopping list is drawn from; a list item may carry any category
BalanceListPool ==
    << <<"milk", "other">>, <<"cheese", "other">>, <<"yogurt", "dairy">>,
       <<"tea", "beverages">>, <<"bread", "grains">> >>

\* PurchaseHistory._purchases: c[k] records of item k, all bought on day 0
BalanceHistories ==
    { FoldLeft(LAMBDA h, k :
                  h \o [i \in 1..c[k] |-> GroceryItem(BalanceItems[k][1], BalanceItems[k][2], 0)],
               <<>>, [k \in 1..Len(BalanceItems) |-> k]) :
      c \in [1..Len(BalanceItems) -> BalanceCounts] }

\* ShoppingList._items: the chosen items of the pool
BalanceLists ==
    { [i \in 1..Len(Pick(BalanceListPool, idx, 1)) |->
          LET p == Pick(BalanceListPool, idx, 1)[i] IN GroceryItem(p[1], p[2], 0)] :
      idx \in SUBSET (1..Len(BalanceListPool)) }

\* a RuleEngine process that has received one request with L and H
InitBalance ==
    /\ app = "rule"
    /\ clock = 1
    /\ model_files = NoFiles
    /\ item_associations = LoadOrInitializeModels(NoFiles).item_associations
    /\ seasonal_patterns = LoadOrInitializeModels(NoFiles).seasonal_patterns
    /\ category_preferences = LoadOrInitializeModels(NoFiles).category_preferences
    /\ purchase_patterns = LoadOrInitializeModels(NoFiles).purchase_patterns
    /\ item_clusters = LoadOrInitializeModels(NoFiles).item_clusters
    /\ hash_seed = 0
    /\ calls = 0
    /\ \E L \in BalanceLists, H \in BalanceHistories :
           last = [NoCall EXCEPT !.op = "request", !.L = L, !.H = H]
    /\ requests = [r \in Requests |-> Idle]
    /\ items = <<>>
    /\ objects = <<>>
    /\ purchases = <<>>
    /\ caller_item = None

\* rule_engine._get_category_suggestions(L, H), the fourth rule of generate_suggestions
CategorySuggestions ==
    /\ last.op = "request"
    /\ last' = [last EXCEPT !.op = "balance", !.now = Now,
                            !.result = GetCategorySuggestions(last.L, last.H)]
    /\ UNCHANGED <<data_vars, app, engine_vars, model_files, clock, hash_seed, calls, requests>>

NextBalance == CategorySuggestions

SpecBalance == InitBalance /\ [][NextBalance]_vars

(* ------------------------------------------------------------------ *)
(* Properties                                                          *)
(* ------------------------------------------------------------------ *)
\* the last call returned a suggestion list
Returned == last.op \in {"smart", "rule"}

\* the candidates the generators of the last call proposed, in call order (the
\* smart engine's models are those its learning pass left)
LastCandidates ==
    IF last.op = "smart" THEN SmartCandidates(Engine, last.L, last.H, last.now)
    ELSE IF last.op = "rule" THEN RuleCandidates(last.L, last.H, last.now, hash_seed)
    ELSE <<>>

\* the name as the engines compare it: lower case, trimmed
NormalizedName(x) == LowerStrip(x.name)

\* a fraction within [0, 1]
InUnitInterval(c) == RLeq(RInt(0), c) /\ RLeq(c, RInt(1))

\* C1 (exclusion): after any sequence of calls, no suggestion returned by
\* generate_smart_suggestions or generate_suggestions has a name that, lower-cased
\* and trimmed, equals the name of an item of the shopping list of the call.
C1_Exclusion ==
    Returned =>
        \A i \in 1..Len(last.result), j \in 1..Len(last.L) :
            NormalizedName(last.result[i]) # NormalizedName(last.L[j])

\* a generator proposed an item of the shopping list, and a non-empty list was returned
C1_Witness ==
    /\ Returned
    /\ last.result # <<>>
    /\ \E i \in 1..Len(LastCandidates), j \in 1..Len(last.L) :
           NormalizedName(LastCandidates[i]) = NormalizedName(last.L[j])

\* C2 (no duplicates): no two suggestions of a returned list have the same name
\* after lower-casing and trimming, whichever generators proposed them.
C2_NoDuplicates ==
    Returned =>
        \A i, j \in 1..Len(last.result) :
            i # j => NormalizedName(last.result[i]) # NormalizedName(last.result[j])

\* two generators of the smart engine proposed the same item, written differently,
\* and it was returned
C2_Witness ==
    /\ last.op = "smart"
    /\ \E i, j \in 1..Len(LastCandidates) :
           /\ LastCandidates[i].rule_type # LastCandidates[j].rule_type
           /\ LastCandidates[i].name # LastCandidates[j].name
           /\ NormalizedName(LastCandidates[i]) = NormalizedName(LastCandidates[j])
           /\ \E k \in 1..Len(last.result) :
                  NormalizedName(last.result[k]) = NormalizedName(LastCandidates[i])

\* C3 (confidence bounds): every suggestion returned by generate_smart_suggestions
\* has 0 <= confidence <= 1, also when the lift or confidence x lift of a learned
\* association rule exceeds 1.
C3_ConfidenceBounds ==
    last.op = "smart" =>
        \A i \in 1..Len(last.result) : InUnitInterval(last.result[i].confidence)

\* an association suggestion was returned for a rule whose lift, and whose
\* confidence x lift x 0.8, exceed 1
C3_Witness ==
    /\ last.op = "smart"
    /\ \E i \in 1..Len(last.result), j \in 1..Len(last.L), a \in 1..Len(item_associations) :
           /\ last.result[i].rule_type = "smart_association"
           /\ item_associations[a][1] = Lower(last.L[j].name)
           /\ \E b \in 1..Len(item_associations[a][2]) :
                  LET rule == item_associations[a][2][b]
                  IN  /\ Title(rule[1]) = last.result[i].name
                      /\ RLess(RInt(1), rule[2].lift)
                      /\ RLess(RInt(1),
                               RMul(RMul(rule[2].confidence, rule[2].lift), <<8, 10>>))

\* the maximum number of suggestions the last call may return
LastMaximum == IF last.op = "smart" THEN SmartMaxSuggestions ELSE RuleMaxSuggestions

\* the candidates of the last call after de-duplication
LastUnique == DeduplicateSuggestions(LastCandidates, last.L)

FreshlyLearned == LearnFromPurchaseHistory(EmptyEngine, last.H, last.now, hash_seed)

\* C5 (full recomputation): after learn_from_purchase_history(H) the association
\* rules, repurchase patterns, seasonal profiles and item clusters of the engine
\* equal those a fresh engine holds after learning H alone; nothing derived only
\* from an earlier history, or loaded from disk, survives the pass.
C5_FullRecomputation ==
    last.op \in {"learn", "smart"} =>
        /\ item_associations = FreshlyLearned.item_associations
        /\ purchase_patterns = FreshlyLearned.purchase_patterns
        /\ seasonal_patterns = FreshlyLearned.seasonal_patterns
        /\ item_clusters = FreshlyLearned.item_clusters

\* C6 (statelessness): the list returned by generate_smart_suggestions(L, H)
\* depends only on L, H and the current time: it is the list a fresh engine,
\* started without model files, returns for the same L and H at the same instant.
C6_Statelessness ==
    last.op = "smart" =>
        last.result =
            GenerateSmartSuggestions(EmptyEngine, last.L, last.H, last.now, hash_seed)

\* C7 (empty history): with an empty purchase history generate_smart_suggestions
\* and RuleEngine.generate_suggestions return an empty list, for every shopping
\* list and whatever earlier calls learned.
C7_EmptyHistory ==
    (Returned /\ last.H = <<>>) => last.result = <<>>

\* C8 (concurrent requests): of two requests running generate_smart_suggestions
\* at the same time on the process-wide engine, each returns the list it would
\* return if it ran alone on its own snapshot.
C8_Isolation ==
    \A r \in Requests : requests[r].pc = "done" => requests[r].result = requests[r].alone

\* a step that is one whole call of generate_smart_suggestions
SmartCall == last'.op = "smart" /\ calls' = calls + 1

C10_Determinism ==
    [][(SmartCall /\ last.op = "smart" /\ last'.L = last.L /\ last'.H = last.H
           /\ last'.now = last.now)
          => (last'.result = last.result /\ EngineNext = Engine
                 /\ model_files' = model_files)]_vars

\* the same call was made twice in a row on a history that is learned from and
\* clustered, and returned suggestions of several generators
C10_Witness ==
    /\ last.op = "smart"
    /\ last.repeat
    /\ item_clusters # None
    /\ seasonal_patterns # <<>>
    /\ \E i, j \in 1..Len(last.result) :
           last.result[i].rule_type # last.result[j].rule_type

(* ------------------------------------------------------------------ *)
(* Association rules against the baskets of the history                *)
(* ------------------------------------------------------------------ *)
\* a learning pass on a non-empty history was the last call
Learned == last.op = "learn" /\ last.H # <<>>

\* the purchase days of H: one basket per day
BasketDays(H) == {H[i].purchase_date : i \in 1..Len(H)}

\* the set of distinct item names bought on day d
BasketOf(H, d) == {Lower(H[i].name) : i \in {j \in 1..Len(H) : H[j].purchase_date = d}}

\* the number of baskets that contain a
Occurrences(H, a) == Cardinality({d \in BasketDays(H) : a \in BasketOf(H, d)})

\* the number of baskets that contain both a and b
SupportCount(H, a, b) ==
    Cardinality({d \in BasketDays(H) : a \in BasketOf(H, d) /\ b \in BasketOf(H, d)})

\* the rules the engine holds, as <<antecedent, consequent, values>>
HeldRules ==
    UNION { {<<item_associations[i][1], item_associations[i][2][j][1],
               item_associations[i][2][j][2]>> : j \in 1..Len(item_associations[i][2])} :
            i \in 1..Len(item_associations) }

\* C11: after a learning pass on H every rule A->B held by the engine has
\* support = number of baskets (distinct days, distinct names) with A and B,
\* confidence = support / baskets with A, lift = confidence / (baskets with B / baskets)
C11_AssociationStatistics ==
    Learned =>
        \A r \in HeldRules :
            LET H == last.H
            IN  /\ Occurrences(H, r[1]) > 0
                /\ Occurrences(H, r[2]) > 0
                /\ r[3].support = SupportCount(H, r[1], r[2])
                /\ r[3].confidence = Frac(SupportCount(H, r[1], r[2]), Occurrences(H, r[1]))
                /\ r[3].lift = RDiv(r[3].confidence,
                                    Frac(Occurrences(H, r[2]), Cardinality(BasketDays(H))))


\* C12: every rule A->B held after a learning pass on H has, in H,
\* occurrences(A) >= 2, support_count(A, B) >= 2 and confidence strictly above 0.3
C12_RuleRetention ==
    Learned =>
        \A r \in HeldRules :
            LET H == last.H
            IN  /\ Occurrences(H, r[1]) >= MinSupport
                /\ SupportCount(H, r[1], r[2]) >= MinSupport
                /\ RLess(MinConfidence,
                         Frac(SupportCount(H, r[1], r[2]), Occurrences(H, r[1])))

\* C13: every rule produced by a learning pass has 0 <= confidence <= 1 and lift >= 0
C13_RuleValueRanges ==
    \A r \in HeldRules :
        /\ RLeq(RInt(0), r[3].confidence)
        /\ RLeq(r[3].confidence, RInt(1))
        /\ RLeq(RInt(0), r[3].lift)

(* ------------------------------------------------------------------ *)
(* Repurchase prediction                                               *)
(* ------------------------------------------------------------------ *)
\* the positions in H of the records of the item called name
RecordsOf(H, name) == {i \in 1..Len(H) : Lower(H[i].name) = name}

\* the latest and the earliest purchase day of the item
LastDay(H, name) ==
    CHOOSE d \in {H[i].purchase_date : i \in RecordsOf(H, name)} :
        \A i \in RecordsOf(H, name) : H[i].purchase_date <= d

FirstDay(H, name) ==
    CHOOSE d \in {H[i].purchase_date : i \in RecordsOf(H, name)} :
        \A i \in RecordsOf(H, name) : d <= H[i].purchase_date

\* the mean of the gaps between consecutive purchase days in ascending order:
\* the gaps add up to the distance from the first day to the last
MeanGap(H, name) ==
    Frac(LastDay(H, name) - FirstDay(H, name), Cardinality(RecordsOf(H, name)) - 1)

\* clamp(x, 0, 1) of a fraction
Clamp01(x) == IF RLess(x, RInt(0)) THEN RInt(0) ELSE IF RLess(RInt(1), x) THEN RInt(1) ELSE x

\* C14: after a learning pass on H, for every item with at least two purchases
\* in H the learned average interval is the mean of the whole-day gaps between
\* its consecutive purchase dates in ascending order, the next-purchase
\* probability lies in [0,1] and, for a positive average, equals
\* clamp(days_since_last / average, 0, 1); purchases on days 0, 10, 20 evaluated
\* on day 28 give average 10 and probability 0.8
C14_RepurchasePrediction ==
    Learned =>
        \A name \in {Lower(last.H[i].name) : i \in 1..Len(last.H)} :
            Cardinality(RecordsOf(last.H, name)) >= 2 =>
                /\ DHas(purchase_patterns, name)
                /\ LET p == DGet(purchase_patterns, name)
                       avg == MeanGap(last.H, name)
                       days_since_last == last.now - LastDay(last.H, name)
                   IN  /\ p.avg_interval = avg
                       /\ p.purchase_count = Cardinality(RecordsOf(last.H, name))
                       /\ InUnitInterval(p.next_purchase_probability)
                       /\ (avg[1] > 0 =>
                              p.next_purchase_probability =
                                  Clamp01(RDiv(RInt(days_since_last), avg)))
                       /\ ({last.H[i].purchase_date : i \in RecordsOf(last.H, name)} = {0, 10, 20}
                              /\ Cardinality(RecordsOf(last.H, name)) = 3
                              /\ last.now = 28
                              => p.avg_interval = RInt(10)
                                 /\ p.next_purchase_probability = <<4, 5>>)

\* a pass on day 28 over a history that records one item on days 20, 0, 10 in
\* this order has left average 10 and probability 0.8
C14_Witness ==
    /\ Learned
    /\ last.now = 28
    /\ [i \in 1..Len(last.H) |-> last.H[i].purchase_date] = <<20, 0, 10>>
    /\ DHas(purchase_patterns, Lower(last.H[1].name))
    /\ DGet(purchase_patterns, Lower(last.H[1].name)).avg_interval = RInt(10)
    /\ DGet(purchase_patterns, Lower(last.H[1].name)).next_purchase_probability = <<4, 5>>

(* ------------------------------------------------------------------ *)
(* The pattern generator and items bought once                         *)
(* ------------------------------------------------------------------ *)
\* the pattern generator proposed the item called name in the last call
Proposed(name) == \E k \in 1..Len(last.result) : last.result[k].name = name

\* record i of the last call's history is the only purchase of its item, and
\* no entry of the shopping list has the item's name
BoughtOnceAndUnlisted(i) ==
    /\ Cardinality(RecordsOf(last.H, last.H[i].name)) = 1
    /\ \A j \in 1..Len(last.L) : last.L[j].name # last.H[i].name

\* the whole days since record i was purchased
AgeOf(i) == last.now - last.H[i].purchase_date

\* C15 (as stated): an item purchased exactly once, d whole days ago, and not on
\* the shopping list is proposed by the pattern generator if and only if d >= 14
C15_SinglePurchaseRule ==
    last.op = "pattern" =>
        \A i \in 1..Len(last.H) :
            BoughtOnceAndUnlisted(i) => (Proposed(last.H[i].name) <=> AgeOf(i) >= 14)

\* C15 (amended): such an item is proposed if and only if 14 <= d and the
\* purchase lies in the generator's window of the last 60 days
C15_SinglePurchaseInWindow ==
    last.op = "pattern" =>
        \A i \in 1..Len(last.H) :
            BoughtOnceAndUnlisted(i) =>
                (Proposed(last.H[i].name) <=> (AgeOf(i) >= 14 /\ AgeOf(i) <= 60))

\* one call in which an item bought once 15 days ago is proposed, one bought once
\* 10 days ago is not, and one bought once 61 days ago is not
C15_Witness ==
    /\ last.op = "pattern"
    /\ \E i, j, k \in 1..Len(last.H) :
           /\ BoughtOnceAndUnlisted(i) /\ AgeOf(i) = 15 /\ Proposed(last.H[i].name)
           /\ BoughtOnceAndUnlisted(j) /\ AgeOf(j) = 10 /\ ~Proposed(last.H[j].name)
           /\ BoughtOnceAndUnlisted(k) /\ AgeOf(k) = 61 /\ ~Proposed(last.H[k].name)

(* ------------------------------------------------------------------ *)
(* Seasonal profiles                                                   *)
(* ------------------------------------------------------------------ *)
\* the positions in H of the records purchased in calendar month m
MonthRecords(H, m) == {i \in 1..Len(H) : Month(H[i].purchase_date) = m}

\* the seasonal profile of month m holds a score for the item
ProfileHas(m, name) ==
    DHas(seasonal_patterns, m) /\ DHas(DGet(seasonal_patterns, m), name)

\* the item names of the history and of the profiles held
SeasonalNames(H) ==
    {Lower(H[i].name) : i \in 1..Len(H)}
        \cup UNION {DKeySet(seasonal_patterns[k][2]) : k \in 1..Len(seasonal_patterns)}

\* C16: after a learning pass on H, the seasonal profile of month m contains
\* item i exactly when (records of i in m) / (records in m) > 0.1, and the
\* stored score is that ratio
C16_SeasonalLearner ==
    Learned =>
        \A m \in 1..12 :
            \A name \in SeasonalNames(last.H) :
                LET total == Cardinality(MonthRecords(last.H, m))
                    count == Cardinality(MonthRecords(last.H, m) \cap RecordsOf(last.H, name))
                IN  /\ ProfileHas(m, name) <=> (total > 0 /\ 10 * count > total)
                    /\ ProfileHas(m, name) =>
                           /\ DGet(DGet(seasonal_patterns, m), name) = Frac(count, total)
                           /\ RLess(MinSeasonalScore, DGet(DGet(seasonal_patterns, m), name))
                           /\ RLeq(DGet(DGet(seasonal_patterns, m), name), RInt(1))

(* ------------------------------------------------------------------ *)
(* Clusters                                                            *)
(* ------------------------------------------------------------------ *)
\* the distinct item names of H
DistinctNames(H) == {Lower(H[i].name) : i \in 1..Len(H)}

\* the places <<cluster, position>> at which the clusters held list the name
PlacesOf(name) ==
    UNION { {<<k, j>> : j \in {n \in 1..Len(item_clusters[1][k][2]) :
                                  item_clusters[1][k][2][n] = name}} :
            k \in 1..Len(item_clusters[1]) }

\* C17: after a clustering pass on a history with at least 3 distinct item names
\* every name of the history is a member of exactly one cluster, at one place,
\* and every member of a cluster is a name of the history
C17_ClusterPartition ==
    Learned /\ Cardinality(DistinctNames(last.H)) >= 3 =>
        /\ item_clusters # None
        /\ \A name \in DistinctNames(last.H) : Cardinality(PlacesOf(name)) = 1
        /\ \A k \in 1..Len(item_clusters[1]) :
               /\ item_clusters[1][k][2] # <<>>
               /\ \A j \in 1..Len(item_clusters[1][k][2]) :
                      item_clusters[1][k][2][j] \in DistinctNames(last.H)
        /\ \A k1, k2 \in 1..Len(item_clusters[1]) :
               item_clusters[1][k1][1] = item_clusters[1][k2][1] => k1 = k2

\* a pass over a history with three distinct names, one of them recorded more
\* than once, has left two clusters
C17_Witness ==
    /\ Learned
    /\ Cardinality(DistinctNames(last.H)) >= 3
    /\ Len(last.H) > Cardinality(DistinctNames(last.H))
    /\ item_clusters # None
    /\ Len(item_clusters[1]) >= 2

(* ------------------------------------------------------------------ *)
(* Loading a stored history                                            *)
(* ------------------------------------------------------------------ *)
\* the purchases the history object holds, in order
HistoryRecords == [i \in 1..Len(purchases) |-> objects[purchases[i]]]

\* the positions of the stored records whose date is missing or malformed
BadDates(file) == {i \in 1..Len(file[1]) : file[1][i].date_form # "valid"}

\* the stored records with a well-formed date, as purchases, in their order
WellDated(file) ==
    LET kept == SelectSeq(file[1], LAMBDA data : data.date_form = "valid")
    IN  [i \in 1..Len(kept) |-> GroceryItem(kept[i].name, kept[i].category, kept[i].day)]

\* C18: when one stored record has a malformed or missing purchase date, the
\* loaded history holds exactly the other records, unchanged and in order
C18_MalformedDates ==
    last.op = "load" /\ last.args # None /\ Cardinality(BadDates(last.args)) = 1 =>
        HistoryRecords = WellDated(last.args)

(* ------------------------------------------------------------------ *)
(* The shopping list                                                   *)
(* ------------------------------------------------------------------ *)
\* the entries of L with the normalised name, and with the category if one is given
Matching(L, name, category) ==
    {i \in 1..Len(L) :
        /\ L[i].name = LowerStrip(name)
        /\ (category = None \/ L[i].category = LowerStrip(category[1]))}

\* C19: the list holds at most one entry per (name, category); item_count is the
\* number of entries and total_quantity the sum of their quantities; add_item of
\* a pair already present adds its quantity to that entry and adds no entry;
\* remove_item returns True and removes exactly one entry when an entry with the
\* name exists, and returns False and leaves the list as it was otherwise
C19_ListConsistency ==
    /\ \A i, j \in 1..Len(items) :
           items[i].name = items[j].name /\ items[i].category = items[j].category => i = j
    /\ ItemCount(items) = Cardinality({<<items[i].name, items[i].category>> : i \in 1..Len(items)})
    /\ TotalQuantity(items) =
           SumSeq([i \in 1..Len(items) |-> items[i].quantity])
    /\ last.op = "add_item" =>
           LET item == last.args[1]
               before == Matching(last.L, item.name, Some(item.category))
               after == Matching(items, item.name, Some(item.category))
           IN  /\ last.result = TRUE
               /\ Cardinality(after) = 1
               /\ TotalQuantity(items) = TotalQuantity(last.L) + item.quantity
               /\ before # {} =>
                      /\ ItemCount(items) = ItemCount(last.L)
                      /\ \A i \in before : items[i].quantity = last.L[i].quantity + item.quantity
               /\ before = {} => ItemCount(items) = ItemCount(last.L) + 1
    /\ last.op = "remove_item" =>
           IF Matching(last.L, last.args[1], last.args[2]) # {}
           THEN /\ last.result = TRUE
                /\ ItemCount(items) = ItemCount(last.L) - 1
                /\ Cardinality(Matching(items, last.args[1], last.args[2]))
                       = Cardinality(Matching(last.L, last.args[1], last.args[2])) - 1
           ELSE last.result = FALSE /\ items = last.L

\* an add_item of a pair that is already on a list of two entries has raised
\* that entry's quantity and added no entry
C19_Witness ==
    /\ last.op = "add_item"
    /\ Len(last.L) = 2
    /\ Len(items) = 2
    /\ Matching(last.L, last.args[1].name, Some(last.args[1].category)) # {}
    /\ TotalQuantity(items) > TotalQuantity(last.L)

(* ------------------------------------------------------------------ *)
(* The purchase history                                                *)
(* ------------------------------------------------------------------ *)
\* every record held before the step is still at its place, with all its fields
RecordsKept ==
    \A i \in 1..Len(purchases) :
        /\ i <= Len(purchases')
        /\ objects'[purchases'[i]] = objects[purchases[i]]

\* total_purchases is the number of add_purchase calls made, and the count
\* get_purchase_frequency returned is the number of records whose normalised
\* name is the lowercased, trimmed name asked for
CountsAgree ==
    /\ TotalPurchases(purchases) = calls
    /\ last.op = "get_purchase_frequency" =>
           last.result = Cardinality({i \in 1..Len(purchases) :
                                         LowerStrip(HistoryRecords[i].name)
                                             = LowerStrip(last.args[1])})

\* C20: after any sequence of add_purchase calls total_purchases equals the
\* number of calls, no step removes or alters an earlier record (also a step in
\* which the caller changes the item object it passed in), and
\* get_purchase_frequency counts the records with the normalised name
C20_AppendOnly == [](CountsAgree) /\ [][RecordsKept]_vars

\* after two purchases the caller has renamed the object it passed last, and
\* get_purchase_frequency still counts the purchase under its recorded name
C20_Witness ==
    /\ calls >= 2
    /\ caller_item # None
    /\ objects[caller_item[1]].name = "tea"
    /\ last.op = "get_purchase_frequency"
    /\ last.args[1] = "Milk"
    /\ last.result >= 1
    /\ HistoryRecords[Len(purchases)].name = "milk"

\* the place of a generator in the call order of generate_smart_suggestions and
\* of generate_suggestions
GeneratorRank(rule_type) ==
    CASE rule_type \in {"smart_pattern", "pattern"} -> 1
      [] rule_type \in {"smart_association", "association"} -> 2
      [] rule_type \in {"smart_seasonal", "seasonal"} -> 3
      [] rule_type \in {"smart_category", "category_balance"} -> 4
      [] rule_type \in {"cluster_similarity", "expiration_replacement"} -> 5

\* the places in the candidates c that carry the normalised name of x
SameName(c, x) ==
    {j \in 1..Len(c) : NormalizedName(c[j]) = NormalizedName(x)}

\* C21 (first occurrence wins): the candidates of a call come in the fixed order
\* of the generators (pattern, association, seasonal, category, then cluster or
\* expiration replacement), and every suggestion returned is the first candidate
\* of its normalised name in that order, whatever confidence the later candidates
\* of that name have.
C21_FirstOccurrenceWins ==
    Returned =>
        \A c \in {LastCandidates} :
            /\ \A j, k \in 1..Len(c) :
                   j < k => GeneratorRank(c[j].rule_type) <= GeneratorRank(c[k].rule_type)
            /\ \A i \in 1..Len(last.result) :
                   \A same \in {SameName(c, last.result[i])} :
                       /\ same # {}
                       /\ last.result[i] = c[CHOOSE j \in same : \A k \in same : j <= k]

\* a call in which an earlier generator and a later one proposed the same item,
\* the later one with the higher confidence, and the earlier one's was returned
C21_Witness ==
    /\ Returned
    /\ \E c \in {LastCandidates} :
           \E j, k \in 1..Len(c) :
               /\ GeneratorRank(c[j].rule_type) < GeneratorRank(c[k].rule_type)
               /\ NormalizedName(c[j]) = NormalizedName(c[k])
               /\ RLess(c[j].confidence, c[k].confidence)
               /\ \E i \in 1..Len(last.result) : last.result[i] = c[j]

\* the candidates of one generator in the last call
CandidatesOf(rule_type) ==
    SelectSeq(LastCandidates, LAMBDA c : c.rule_type = rule_type)

\* the rules A -> B the engine holds for the items A of the last call's list whose
\* consequent B is not on the list: <<A, B, confidence * lift>>
ListRules ==
    UNION { { <<Lower(last.L[i].name), kv[1], RMul(kv[2].confidence, kv[2].lift)>> :
                kv \in {kv \in SeqToSet(DGet(item_associations, Lower(last.L[i].name))) :
                           ~InList(last.L, kv[1])} } :
            i \in {i \in 1..Len(last.L) : DHas(item_associations, Lower(last.L[i].name))} }

\* B is among the candidates of the association generator
AssociationProposed(B) ==
    \E j \in 1..Len(CandidatesOf("smart_association")) :
        NormalizedName(CandidatesOf("smart_association")[j]) = B

HeldClusters ==
    IF item_clusters = None THEN {}
    ELSE {item_clusters[1][c][2] : c \in 1..Len(item_clusters[1])}

\* the held clusters that contain the name of an item of the last call's list
ListClusters ==
    {C \in HeldClusters : \E i \in 1..Len(last.L) : Lower(last.L[i].name) \in SeqToSet(C)}

\* name is among the candidates of the cluster generator
ClusterProposed(name) ==
    \E j \in 1..Len(CandidatesOf("cluster_similarity")) :
        NormalizedName(CandidatesOf("cluster_similarity")[j]) = name

\* C23 (cluster generator): after generate_smart_suggestions, every member of a
\* cluster that contains a shopping-list item is among the cluster generator's
\* candidates unless it is on the list, and every candidate of the generator is a
\* member of such a cluster.
C23_ClusterGenerator ==
    last.op = "smart" =>
        /\ \A C \in ListClusters : \A p \in 1..Len(C) :
               ~InList(last.L, C[p]) => ClusterProposed(C[p])
        /\ \A j \in 1..Len(CandidatesOf("cluster_similarity")) :
               \E C \in ListClusters :
                   NormalizedName(CandidatesOf("cluster_similarity")[j]) \in SeqToSet(C)

\* C23 as amended: of a cluster that contains a shopping-list item, the first two
\* members in the cluster's stored order are proposed unless they are on the list,
\* the members after the second are not proposed, and every candidate of the
\* generator is one of the first two members of such a cluster.
C23_ClusterTopTwo ==
    last.op = "smart" =>
        /\ \A C \in ListClusters : \A p \in 1..Len(C) :
               ~InList(last.L, C[p]) => (ClusterProposed(C[p]) <=> p <= 2)
        /\ \A j \in 1..Len(CandidatesOf("cluster_similarity")) :
               \E C \in ListClusters : \E p \in 1..Len(C) :
                   /\ p <= 2
                   /\ C[p] = NormalizedName(CandidatesOf("cluster_similarity")[j])

\* a list item lies in a cluster of three names none of whose other members is on
\* the list: the second member is proposed
C23_Witness ==
    /\ last.op = "smart"
    /\ \E C \in ListClusters :
           /\ Len(C) >= 3
           /\ \E i \in 1..Len(last.L) : Lower(last.L[i].name) = C[1]
           /\ ~InList(last.L, C[2]) /\ ClusterProposed(C[2])
           /\ ~InList(last.L, C[3])

\* C24 (clustering skipped): when the history passed to generate_smart_suggestions
\* has fewer than 3 distinct item names, the call returns and no suggestion of the
\* returned list comes from the cluster-similarity generator, whatever the engine
\* learned in earlier calls.
C24_ClusteringSkipped ==
    (last.op = "smart" /\ Cardinality(DistinctNames(last.H)) < 3) =>
        \A i \in 1..Len(last.result) : last.result[i].rule_type # "cluster_similarity"

\* the next_purchase_probability of the item's pattern computed from the history
\* of the last call at the instant of the call
ProbabilityNow(n) ==
    NextPurchaseProbability(last.now - LastDay(last.H, n), MeanGap(last.H, n))

\* the items with two or more purchases in the history of the last call whose
\* probability is above 0.7 and whose name is not on the list
DuePatterns ==
    {n \in DistinctNames(last.H) :
        /\ Cardinality(RecordsOf(last.H, n)) >= 2
        /\ ~InList(last.L, n)
        /\ RLess(<<7, 10>>, ProbabilityNow(n))}

\* C25 (pattern generator): the candidates of the pattern generator are exactly the
\* items not on the shopping list whose repurchase pattern, computed from the
\* history passed to the call, has a next_purchase_probability greater than 0.7,
\* and the confidence of each candidate is that probability.
C25_PatternGenerator ==
    last.op = "smart" =>
        /\ \A n \in DuePatterns :
               \E j \in 1..Len(CandidatesOf("smart_pattern")) :
                   /\ NormalizedName(CandidatesOf("smart_pattern")[j]) = n
                   /\ CandidatesOf("smart_pattern")[j].confidence = ProbabilityNow(n)
        /\ \A j \in 1..Len(CandidatesOf("smart_pattern")) :
               NormalizedName(CandidatesOf("smart_pattern")[j]) \in DuePatterns

\* the score the engine holds for the item in the profile of month m is above 0.2
SeasonalAbove(m, name) ==
    /\ DHas(seasonal_patterns, m)
    /\ DHas(DGet(seasonal_patterns, m), name)
    /\ RLess(<<1, 5>>, DGet(DGet(seasonal_patterns, m), name))

\* name is among the candidates of the seasonal generator
SeasonalProposed(name) ==
    \E j \in 1..Len(CandidatesOf("smart_seasonal")) :
        NormalizedName(CandidatesOf("smart_seasonal")[j]) = name

\* C26 (seasonal generator uses the current month): every candidate of the seasonal
\* generator is an item whose score in the profile of the calendar month of the
\* request is greater than 0.2; an item with a score only in the profiles of other
\* months is not proposed, and without a profile for the month of the request the
\* generator proposes nothing.
C26_SeasonalCurrentMonth ==
    last.op = "smart" =>
        /\ \A j \in 1..Len(CandidatesOf("smart_seasonal")) :
               SeasonalAbove(Month(last.now), NormalizedName(CandidatesOf("smart_seasonal")[j]))
        /\ ~DHas(seasonal_patterns, Month(last.now)) => CandidatesOf("smart_seasonal") = <<>>

\* the engine holds profiles of several months; an item scored above 0.2 in the
\* month of the request is proposed, and an item that is not on the list and is
\* scored above 0.2 in another month only is not
C26_Witness ==
    /\ last.op = "smart"
    /\ Len(seasonal_patterns) >= 2
    /\ \E j \in 1..Len(CandidatesOf("smart_seasonal")) :
           SeasonalAbove(Month(last.now), NormalizedName(CandidatesOf("smart_seasonal")[j]))
    /\ \E k \in 1..Len(seasonal_patterns) :
           /\ seasonal_patterns[k][1] # Month(last.now)
           /\ \E e \in 1..Len(seasonal_patterns[k][2]) :
                  /\ SeasonalAbove(seasonal_patterns[k][1], seasonal_patterns[k][2][e][1])
                  /\ ~InList(last.L, seasonal_patterns[k][2][e][1])
                  /\ ~SeasonalProposed(seasonal_patterns[k][2][e][1])

\* how many records of the last call's history carry the category
PurchasedTimes(category) ==
    Cardinality({i \in 1..Len(last.H) : last.H[i].category = category})

\* some item of the last call's list carries the category
OnListCategory(category) == \E i \in 1..Len(last.L) : last.L[i].category = category

\* the category generator of the last call proposed name under category
BalanceProposed(name, category) ==
    \E j \in 1..Len(last.result) :
        last.result[j].name = name /\ last.result[j].category = category

\* C27 (category balance): for every category purchased more than 3 times in the
\* history and without an item on the shopping list, RuleEngine's category
\* generator proposes at least one item of that category, and it proposes nothing
\* for a category that has an item on the list.
C27_CategoryBalance ==
    last.op = "balance" =>
        /\ \A i \in 1..Len(last.H) :
               (PurchasedTimes(last.H[i].category) > 3 /\ ~OnListCategory(last.H[i].category))
                   => \E j \in 1..Len(last.result) :
                          last.result[j].category = last.H[i].category
        /\ \A j \in 1..Len(last.result) : ~OnListCategory(last.result[j].category)

\* C27 as amended: for a category of RuleEngine's table (dairy, fruits, vegetables,
\* protein, grains) that was purchased more than 3 times and has no item on the
\* list, the generator proposes each of the first two items the table lists for
\* it whose name is not on the list; it proposes nothing else: nothing for a
\* category outside the table, purchased 3 times or less, or with an item on the
\* list.
C27_TabledCategories ==
    last.op = "balance" =>
        /\ \A c \in 1..Len(RuleCategorySuggestions) : \A p \in 1..2 :
               LET category == RuleCategorySuggestions[c][1]
                   item_name == RuleCategorySuggestions[c][2][p]
               IN  BalanceProposed(item_name, category)
                       <=> /\ PurchasedTimes(category) > 3
                           /\ ~OnListCategory(category)
                           /\ ~InList(last.L, item_name)
        /\ \A j \in 1..Len(last.result) :
               \E c \in 1..Len(RuleCategorySuggestions) : \E p \in 1..2 :
                   /\ last.result[j].category = RuleCategorySuggestions[c][1]
                   /\ last.result[j].name = RuleCategorySuggestions[c][2][p]

\* dairy was purchased four times and no list item carries the category dairy;
\* milk is on the list under another category, and cheese is proposed
C27_Witness ==
    /\ last.op = "balance"
    /\ PurchasedTimes("dairy") = 4
    /\ ~OnListCategory("dairy")
    /\ InList(last.L, "milk")
    /\ BalanceProposed("cheese", "dairy")
    /\ ~BalanceProposed("milk", "dairy")

\* the purchase days of the item in ascending order
DaysOf(H, name) ==
    LET records == SelectSeq(H, LAMBDA item : Lower(item.name) = name)
    IN  SortAsc([i \in 1..Len(records) |-> records[i].purchase_date])

\* all gaps between consecutive purchase days of the item are the same
EqualGaps(H, name) ==
    \A i, j \in 1..(Len(DaysOf(H, name)) - 1) :
        DaysOf(H, name)[i + 1] - DaysOf(H, name)[i]
            = DaysOf(H, name)[j + 1] - DaysOf(H, name)[j]

\* the deviation stored (a value, or the square root of a variance) is 0
ZeroDeviation(s) ==
    IF "value" \in DOMAIN s THEN s.value[1] = 0 ELSE s.sqrt_of[1] = 0

\* C28 (interval deviation): after a learning pass the deviation stored for an
\* item with exactly two purchases (a single gap) is 0, and the deviation stored
\* for an item whose gaps are all equal is 0.
C28_IntervalDeviation ==
    Learned =>
        \A name \in DistinctNames(last.H) :
            (Len(DaysOf(last.H, name)) >= 2 /\ EqualGaps(last.H, name))
                => ZeroDeviation(DGet(purchase_patterns, name).std_interval)

\* C28 as amended: the deviation stored for an item with exactly two purchases is
\* 0.2 times their gap, and the deviation stored for an item with three or more
\* purchases whose gaps are all equal is 0.
C28_SingleGapFallback ==
    Learned =>
        \A name \in DistinctNames(last.H) :
            /\ Len(DaysOf(last.H, name)) = 2
                   => DGet(purchase_patterns, name).std_interval
                          = [value |-> RMul(MeanGap(last.H, name), <<1, 5>>)]
            /\ (Len(DaysOf(last.H, name)) >= 3 /\ EqualGaps(last.H, name))
                   => DGet(purchase_patterns, name).std_interval = [sqrt_of |-> RInt(0)]

\* one pass has stored deviation 2 for an item bought twice ten days apart, another
\* deviation 0 for an item bought on days 0, 10 and 20
C28_Witness ==
    /\ Learned
    /\ \E name \in DistinctNames(last.H) :
           \/ /\ DaysOf(last.H, name) = <<0, 10>>
              /\ DGet(purchase_patterns, name).std_interval = [value |-> RInt(2)]
              /\ DHas(purchase_patterns, "eggs")
              /\ DGet(purchase_patterns, "eggs").std_interval = [sqrt_of |-> RInt(0)]
           \/ /\ DaysOf(last.H, name) = <<0, 10, 20>>
              /\ DGet(purchase_patterns, name).std_interval = [sqrt_of |-> RInt(0)]
              /\ DHas(purchase_patterns, "milk")
              /\ DGet(purchase_patterns, "milk").std_interval = [value |-> RInt(2)]

\* C29 (zero average interval): after a learning pass or a suggestion call on a
\* history in which all purchases of an item (two or more) fall on one day, the
\* engine holds a pattern for the item whose probability lies in [0, 1], the
\* division days_since_last / average interval that produced it was not a
\* division by zero, and should_suggest_item answers for the item.
C29_ZeroAverageInterval ==
    last.op \in {"learn", "smart"} =>
        \A name \in DistinctNames(last.H) :
            (Len(DaysOf(last.H, name)) >= 2 /\ MeanGap(last.H, name)[1] = 0) =>
                /\ DHas(purchase_patterns, name)
                /\ InUnitInterval(DGet(purchase_patterns, name).next_purchase_probability)
                /\ IntervalQuotient(last.now - LastDay(last.H, name),
                                    DGet(purchase_patterns, name).avg_interval).kind = "finite"
                /\ ShouldSuggestItem(last.H, name, 7, last.now) \in BOOLEAN

\* the whole days (timedelta.days) from the instant of the last call to the
\* predicted next purchase of the item: last purchase + average interval
DaysUntilPredicted(name) ==
    RFloor(RSub(RAdd(RInt(LastDay(last.H, name)), MeanGap(last.H, name)), RInt(last.now)))

\* the item has a purchase within the last 60 days
BoughtRecently(name) ==
    \E i \in RecordsOf(last.H, name) : last.now - last.H[i].purchase_date <= 60

\* the thresholds should_suggest_item is asked with
Thresholds == {3, 7, 14}

\* C30 (repurchase window): for an item with two or more purchases and a positive
\* average interval, should_suggest_item(name, threshold_days) is True exactly
\* when the predicted next purchase lies at most threshold_days whole days before
\* or after now, so that an item overdue by more than threshold_days is not
\* suggested; and RuleEngine's pattern generator, which asks with the default of 7
\* days, proposes such an item exactly when it is due, has a purchase within the
\* last 60 days and is not on the list.
C30_RepurchaseWindow ==
    last.op = "pattern" =>
        \A name \in DistinctNames(last.H) :
            (Cardinality(RecordsOf(last.H, name)) >= 2 /\ MeanGap(last.H, name)[1] > 0) =>
                /\ \A t \in Thresholds :
                       ShouldSuggestItem(last.H, name, t, last.now)
                           <=> (-t <= DaysUntilPredicted(name) /\ DaysUntilPredicted(name) <= t)
                /\ Proposed(name)
                       <=> /\ -7 <= DaysUntilPredicted(name)
                           /\ DaysUntilPredicted(name) <= 7
                           /\ BoughtRecently(name)
                           /\ ~InList(last.L, name)

\* one call in which an item predicted for 7.5 days from now is proposed, an item
\* overdue by 7.5 days is not, and neither is on the list
C30_Witness ==
    /\ last.op = "pattern"
    /\ \E a, b \in DistinctNames(last.H) :
           /\ Cardinality(RecordsOf(last.H, a)) = 3 /\ Cardinality(RecordsOf(last.H, b)) = 3
           /\ MeanGap(last.H, a) = <<15, 2>> /\ MeanGap(last.H, b) = <<15, 2>>
           /\ DaysUntilPredicted(a) = 7 /\ Proposed(a)
           /\ DaysUntilPredicted(b) = -8 /\ ~InList(last.L, b) /\ ~Proposed(b)

====
